---- MODULE Spec2Model ----
(***************************************************************************)
(* Model of the domain operations layer of the chat backend: the seven     *)
(* tables of server/src/db/schema.ts and the mutation handlers of          *)
(* server/src/handlers.  A table is the set of its rows; serial ids come   *)
(* from one sequence per table (seq), which is advanced by every insert    *)
(* that is attempted, also by one the store rejects or rolls back.         *)
(* Timestamps and the pass-through columns (description, is_private,       *)
(* file_url, file_size, file_type) take no part in any decision of the     *)
(* handlers and are left out of the rows.                                  *)
(* last is the response of the step taken last: the operation, the error   *)
(* thrown ("none" on success) and, on success, the input and the row       *)
(* returned.                                                               *)
(***************************************************************************)
EXTENDS Integers, Sequences, FiniteSets, TLC

VARIABLES users, chatRooms, roomMembers, messages, uploads, comments,
          pushNotifications, seq, tx, pending, last

tables == <<users, chatRooms, roomMembers, messages, uploads, comments,
            pushNotifications>>
vars == <<users, chatRooms, roomMembers, messages, uploads, comments,
          pushNotifications, seq, tx, pending, last>>

----------------------------------------------------------------------------
(* Bounds of the model *)

MaxUsers == 3
MaxRooms == 2
MaxMembers == 4
MaxMessages == 2
MaxUploads == 2
MaxComments == 3
MaxNotifications == 4
MaxInFlight == 2
MaxPageMessages == 5
MaxClock == 3

----------------------------------------------------------------------------
(* JavaScript values.  An optional numeric input is undefined, null or a   *)
(* number; a nullable numeric column is null or a number.                  *)

Undefined == [t |-> "undefined"]
Null == [t |-> "null"]
Num(n) == [t |-> "number", v |-> n]

\* JavaScript truthiness of an optional number: undefined, null and 0 are falsy
Truthy(x) ==
  \/ x.t = "number" /\ x.v # 0
  \/ x.t = "string" /\ x.v # <<>>

\* x || null
OrNull(x) == IF Truthy(x) THEN x ELSE Null

\* optional string inputs
StrUndefined == "<undefined>"
StrNull == "<null>"

\* s || d for a string input (the empty string is excluded by the input domains)
StrOr(s, d) == IF s \in {StrUndefined, StrNull} THEN d ELSE s

\* a string value of a nullable text input or column: the sequence of its
\* pieces, <<>> for the empty string
Str(pieces) == [t |-> "string", v |-> pieces]

\* JSON.stringify of an object literal: its key/value pairs in source order
JSONstringify(pairs) == Str(pairs)

\* value of a key in a stringified object
JSONget(data, key) == data.v[CHOOSE i \in DOMAIN data.v : data.v[i][1] = key][2]

NoError == "none"

----------------------------------------------------------------------------
(* Enumerations of server/src/db/schema.ts *)

userStatusEnum == {"online", "offline", "away"}
roomRoleEnum == {"admin", "moderator", "member"}

----------------------------------------------------------------------------
(* Store primitives *)

userIds == {u.id : u \in users}
roomIds == {r.id : r \in chatRooms}

\* nextval of a serial column
NextVal(t) == seq[t]
Advance(ts) == [t \in DOMAIN seq |-> IF t \in ts THEN seq[t] + 1 ELSE seq[t]]
AdvanceBy(t, n) == [seq EXCEPT ![t] = @ + n]

Init ==
  /\ users = {}
  /\ chatRooms = {}
  /\ roomMembers = {}
  /\ messages = {}
  /\ uploads = {}
  /\ comments = {}
  /\ pushNotifications = {}
  /\ seq = [users |-> 1, chat_rooms |-> 1, room_members |-> 1, messages |-> 1,
            uploads |-> 1, comments |-> 1, push_notifications |-> 1]
  /\ tx = {}
  /\ pending = {}
  /\ last = [op |-> "init", error |-> NoError]

InFlight == Cardinality(tx) + Cardinality(pending)

\* the orders in which a SELECT without ORDER BY may return the rows of S
Orderings(S) ==
  {f \in [1..Cardinality(S) -> S] : \A i, j \in DOMAIN f : f[i] = f[j] => i = j}

\* db.insert(pushNotificationsTable).values(values): one row per value, ids
\* in the order of the values; is_read takes its default
NewNotifications(values) ==
  {[id |-> NextVal("push_notifications") + i - 1,
    user_id |-> values[i].user_id,
    title |-> values[i].title,
    body |-> values[i].body,
    type |-> values[i].type,
    data |-> values[i].data,
    is_read |-> FALSE] : i \in DOMAIN values}

Min(a, b) == IF a < b THEN a ELSE b

----------------------------------------------------------------------------
(* createUser: one insert; the unique constraints on username and email    *)
(* reject a duplicate.                                                      *)

\* the insert without the unique constraints on username and email
createUserNoUnique(input) ==
  /\ NextVal("users") <= MaxUsers
  /\ LET row == [id |-> NextVal("users"),
                 username |-> input.username,
                 email |-> input.email,
                 avatar_url |-> StrOr(input.avatar_url, StrNull),
                 status |-> StrOr(input.status, "offline")]
     IN /\ users' = users \cup {row}
        /\ last' = [op |-> "createUser", input |-> input,
                    error |-> NoError, result |-> row]
  /\ seq' = Advance({"users"})
  /\ UNCHANGED <<chatRooms, roomMembers, messages, uploads, comments,
                 pushNotifications, tx, pending>>

createUser(input) ==
  /\ NextVal("users") <= MaxUsers
  /\ LET row == [id |-> NextVal("users"),
                 username |-> input.username,
                 email |-> input.email,
                 avatar_url |-> StrOr(input.avatar_url, StrNull),
                 status |-> StrOr(input.status, "offline")]
     IN IF \E u \in users : u.username = row.username \/ u.email = row.email
        THEN /\ users' = users
             /\ last' = [op |-> "createUser",
                         error |-> "duplicate key value violates unique constraint"]
        ELSE /\ users' = users \cup {row}
             /\ last' = [op |-> "createUser", input |-> input,
                         error |-> NoError, result |-> row]
  /\ seq' = Advance({"users"})
  /\ UNCHANGED <<chatRooms, roomMembers, messages, uploads, comments,
                 pushNotifications, tx, pending>>

----------------------------------------------------------------------------
(* createChatRoom: db.transaction with two inserts.  The rows written      *)
(* inside the transaction are held in tx and become part of the tables     *)
(* when the transaction commits; a failed statement or an interruption     *)
(* rolls the transaction back.                                             *)

\* variant: the room insert runs on db instead of tx and is visible at once
createChatRoomInsertRoomOutsideTx(input) ==
  /\ NextVal("chat_rooms") <= MaxRooms
  /\ InFlight < MaxInFlight
  /\ LET chatRoom == [id |-> NextVal("chat_rooms"),
                      name |-> input.name,
                      created_by |-> input.created_by]
     IN IF input.created_by \notin userIds
        THEN /\ tx' = tx
             /\ chatRooms' = chatRooms
             /\ last' = [op |-> "createChatRoom",
                         error |-> "violates foreign key constraint"]
        ELSE /\ tx' = tx \cup {[input |-> input, chatRoom |-> chatRoom,
                                 members |-> {}]}
             /\ chatRooms' = chatRooms \cup {chatRoom}
             /\ last' = [op |-> "createChatRoom:insertRoom", input |-> input,
                         error |-> NoError]
  /\ seq' = Advance({"chat_rooms"})
  /\ UNCHANGED <<users, roomMembers, messages, uploads, comments,
                 pushNotifications, pending>>

\* tx.insert(chatRoomsTable): the foreign key on created_by is checked here
createChatRoomInsertRoom(input) ==
  /\ NextVal("chat_rooms") <= MaxRooms
  /\ InFlight < MaxInFlight
  /\ LET chatRoom == [id |-> NextVal("chat_rooms"),
                      name |-> input.name,
                      created_by |-> input.created_by]
     IN IF input.created_by \notin userIds
        THEN /\ tx' = tx
             /\ last' = [op |-> "createChatRoom",
                         error |-> "violates foreign key constraint"]
        ELSE /\ tx' = tx \cup {[input |-> input, chatRoom |-> chatRoom,
                                 members |-> {}]}
             /\ last' = [op |-> "createChatRoom:insertRoom", input |-> input,
                         error |-> NoError]
  /\ seq' = Advance({"chat_rooms"})
  /\ UNCHANGED <<tables, pending>>

\* variant: the role is left to the column default
createChatRoomInsertMemberDefaultRole(t) ==
  /\ t \in tx
  /\ t.members = {}
  /\ NextVal("room_members") <= MaxMembers
  /\ LET member == [id |-> NextVal("room_members"),
                    room_id |-> t.chatRoom.id,
                    user_id |-> t.input.created_by,
                    role |-> "member"]
     IN tx' = (tx \ {t}) \cup {[t EXCEPT !.members = {member}]}
  /\ last' = [op |-> "createChatRoom:insertMember", input |-> t.input,
              error |-> NoError]
  /\ seq' = Advance({"room_members"})
  /\ UNCHANGED <<tables, pending>>

\* tx.insert(roomMembersTable): creator as admin
createChatRoomInsertMember(t) ==
  /\ t \in tx
  /\ t.members = {}
  /\ NextVal("room_members") <= MaxMembers
  /\ LET member == [id |-> NextVal("room_members"),
                    room_id |-> t.chatRoom.id,
                    user_id |-> t.input.created_by,
                    role |-> "admin"]
     IN tx' = (tx \ {t}) \cup {[t EXCEPT !.members = {member}]}
  /\ last' = [op |-> "createChatRoom:insertMember", input |-> t.input,
              error |-> NoError]
  /\ seq' = Advance({"room_members"})
  /\ UNCHANGED <<tables, pending>>

\* the callback returns: COMMIT makes both rows visible at once
createChatRoomCommit(t) ==
  /\ t \in tx
  /\ t.members # {}
  /\ chatRooms' = chatRooms \cup {t.chatRoom}
  /\ roomMembers' = roomMembers \cup t.members
  /\ tx' = tx \ {t}
  /\ last' = [op |-> "createChatRoom", input |-> t.input,
              error |-> NoError, result |-> t.chatRoom]
  /\ UNCHANGED <<users, messages, uploads, comments, pushNotifications,
                 seq, pending>>

\* the connection or the process is lost before COMMIT: ROLLBACK
createChatRoomRollback(t) ==
  /\ t \in tx
  /\ tx' = tx \ {t}
  /\ last' = [op |-> "createChatRoom", input |-> t.input,
              error |-> "interrupted", rolledBack |-> t]
  /\ UNCHANGED <<tables, seq, pending>>

\* the whole handler when nothing interrupts it: what the three steps above
\* do to the tables, in one step
createChatRoom(input) ==
  /\ NextVal("chat_rooms") <= MaxRooms
  /\ NextVal("room_members") <= MaxMembers
  /\ LET chatRoom == [id |-> NextVal("chat_rooms"),
                      name |-> input.name,
                      created_by |-> input.created_by]
         member == [id |-> NextVal("room_members"),
                    room_id |-> chatRoom.id,
                    user_id |-> input.created_by,
                    role |-> "admin"]
     IN IF input.created_by \notin userIds
        THEN /\ UNCHANGED <<chatRooms, roomMembers>>
             /\ seq' = Advance({"chat_rooms"})
             /\ last' = [op |-> "createChatRoom",
                         error |-> "violates foreign key constraint"]
        ELSE /\ chatRooms' = chatRooms \cup {chatRoom}
             /\ roomMembers' = roomMembers \cup {member}
             /\ seq' = Advance({"chat_rooms", "room_members"})
             /\ last' = [op |-> "createChatRoom", input |-> input,
                         error |-> NoError, result |-> chatRoom]
  /\ UNCHANGED <<users, messages, uploads, comments, pushNotifications,
                 tx, pending>>

----------------------------------------------------------------------------
(* addRoomMember: three existence checks, then two inserts, each statement *)
(* in its own implicit transaction.  The handler awaits between the checks *)
(* and the inserts, so other requests run in between: pending holds the    *)
(* calls that have passed their checks and not yet inserted.               *)

FreeSlot == CHOOSE n \in 1..(MaxInFlight + 1) : \A p \in pending : p.slot # n

\* the checks without the one for an existing membership
addRoomMemberErrorNoExisting(input) ==
  IF input.user_id \notin userIds THEN "User not found"
  ELSE IF input.room_id \notin roomIds THEN "Chat room not found"
  ELSE NoError

addRoomMemberError(input) ==
  IF input.user_id \notin userIds THEN "User not found"
  ELSE IF input.room_id \notin roomIds THEN "Chat room not found"
  ELSE IF \E m \in roomMembers :
            m.room_id = input.room_id /\ m.user_id = input.user_id
       THEN "User is already a member of room"
  ELSE NoError

addRoomMemberCheck(input) ==
  /\ InFlight < MaxInFlight
  /\ IF addRoomMemberError(input) # NoError
     THEN /\ pending' = pending
          /\ last' = [op |-> "addRoomMember",
                      error |-> addRoomMemberError(input)]
     ELSE /\ pending' = pending \cup
               {[slot |-> FreeSlot, input |-> input,
                 roomExists |-> CHOOSE r \in chatRooms : r.id = input.room_id]}
          /\ last' = [op |-> "addRoomMember:check", input |-> input,
                      error |-> NoError]
  /\ UNCHANGED <<tables, seq, tx>>

addRoomMemberInsert(p) ==
  /\ p \in pending
  /\ NextVal("room_members") <= MaxMembers
  /\ Cardinality(pushNotifications) < MaxNotifications
  /\ LET roomMember == [id |-> NextVal("room_members"),
                        room_id |-> p.input.room_id,
                        user_id |-> p.input.user_id,
                        role |-> StrOr(p.input.role, "member")]
         notification ==
           [id |-> NextVal("push_notifications"),
            user_id |-> p.input.user_id,
            title |-> "Room Invitation",
            body |-> <<"You've been added to ", p.roomExists.name>>,
            type |-> "room_invite",
            data |-> JSONstringify(<<<<"room_id", p.input.room_id>>,
                                     <<"room_name", p.roomExists.name>>>>),
            is_read |-> FALSE]
     IN /\ roomMembers' = roomMembers \cup {roomMember}
        /\ pushNotifications' = pushNotifications \cup {notification}
        /\ last' = [op |-> "addRoomMember", input |-> p.input,
                    error |-> NoError, result |-> roomMember]
  /\ pending' = pending \ {p}
  /\ seq' = Advance({"room_members", "push_notifications"})
  /\ UNCHANGED <<users, chatRooms, messages, uploads, comments, tx>>

\* the handler with the notification addressed to the creator of the room
addRoomMemberInviteToCreator(input) ==
  /\ IF addRoomMemberError(input) # NoError
     THEN /\ last' = [op |-> "addRoomMember",
                      error |-> addRoomMemberError(input)]
          /\ UNCHANGED <<roomMembers, pushNotifications, seq>>
     ELSE /\ NextVal("room_members") <= MaxMembers
          /\ Cardinality(pushNotifications) < MaxNotifications
          /\ LET roomExists == CHOOSE r \in chatRooms : r.id = input.room_id
                 roomMember == [id |-> NextVal("room_members"),
                                room_id |-> input.room_id,
                                user_id |-> input.user_id,
                                role |-> StrOr(input.role, "member")]
                 notification ==
                   [id |-> NextVal("push_notifications"),
                    user_id |-> roomExists.created_by,
                    title |-> "Room Invitation",
                    body |-> <<"You've been added to ", roomExists.name>>,
                    type |-> "room_invite",
                    data |-> JSONstringify(<<<<"room_id", input.room_id>>,
                                             <<"room_name", roomExists.name>>>>),
                    is_read |-> FALSE]
             IN /\ roomMembers' = roomMembers \cup {roomMember}
                /\ pushNotifications' = pushNotifications \cup {notification}
                /\ last' = [op |-> "addRoomMember", input |-> input,
                            error |-> NoError, result |-> roomMember]
          /\ seq' = Advance({"room_members", "push_notifications"})
  /\ UNCHANGED <<users, chatRooms, messages, uploads, comments, tx, pending>>

\* the whole handler when no other request runs between its awaits
addRoomMember(input) ==
  /\ IF addRoomMemberError(input) # NoError
     THEN /\ last' = [op |-> "addRoomMember",
                      error |-> addRoomMemberError(input)]
          /\ UNCHANGED <<roomMembers, pushNotifications, seq>>
     ELSE /\ NextVal("room_members") <= MaxMembers
          /\ Cardinality(pushNotifications) < MaxNotifications
          /\ LET roomExists == CHOOSE r \in chatRooms : r.id = input.room_id
                 roomMember == [id |-> NextVal("room_members"),
                                room_id |-> input.room_id,
                                user_id |-> input.user_id,
                                role |-> StrOr(input.role, "member")]
                 notification ==
                   [id |-> NextVal("push_notifications"),
                    user_id |-> input.user_id,
                    title |-> "Room Invitation",
                    body |-> <<"You've been added to ", roomExists.name>>,
                    type |-> "room_invite",
                    data |-> JSONstringify(<<<<"room_id", input.room_id>>,
                                             <<"room_name", roomExists.name>>>>),
                    is_read |-> FALSE]
             IN /\ roomMembers' = roomMembers \cup {roomMember}
                /\ pushNotifications' = pushNotifications \cup {notification}
                /\ last' = [op |-> "addRoomMember", input |-> input,
                            error |-> NoError, result |-> roomMember]
          /\ seq' = Advance({"room_members", "push_notifications"})
  /\ UNCHANGED <<users, chatRooms, messages, uploads, comments, tx, pending>>

----------------------------------------------------------------------------
(* createMessage *)

\* the body with the cut after 75 characters
MessageBodyCutAt75(content) ==
  <<"New message in room: ">> \o SubSeq(content, 1, Min(75, Len(content)))
    \o (IF Len(content) > 75 THEN <<"...">> ELSE <<>>)

\* `${input.content.substring(0, 50)}${input.content.length > 50 ? '...' : ''}`
\* after the fixed prefix; a string is the sequence of its pieces
MessageBody(content) ==
  <<"New message in room: ">> \o SubSeq(content, 1, Min(50, Len(content)))
    \o (IF Len(content) > 50 THEN <<"...">> ELSE <<>>)

\* variant: the membership check is missing
createMessageErrorNoMembership(input) ==
  IF /\ Truthy(input.reply_to_id)
     /\ ~ \E r \in messages :
            r.id = input.reply_to_id.v /\ r.room_id = input.room_id
  THEN "Reply target message not found in this room"
  ELSE NoError

\* variant: the reply target is looked up by id alone, in any room
createMessageErrorAnyRoom(input) ==
  IF ~ \E m \in roomMembers :
         m.room_id = input.room_id /\ m.user_id = input.user_id
  THEN "User is not a member of this room"
  ELSE IF /\ Truthy(input.reply_to_id)
          /\ ~ \E r \in messages : r.id = input.reply_to_id.v
       THEN "Reply target message not found in this room"
  ELSE NoError

createMessageError(input) ==
  IF ~ \E m \in roomMembers :
         m.room_id = input.room_id /\ m.user_id = input.user_id
  THEN "User is not a member of this room"
  ELSE IF /\ Truthy(input.reply_to_id)
          /\ ~ \E r \in messages :
                 r.id = input.reply_to_id.v /\ r.room_id = input.room_id
       THEN "Reply target message not found in this room"
  ELSE NoError

\* defaultNow() of the timestamps of a new message: the clock reading of the
\* insert, in ticks of the clock's resolution; it is not before the latest
\* stored reading and may equal it
defaultNow ==
  IF messages = {} THEN {1}
  ELSE LET latest == CHOOSE t \in {m.updated_at : m \in messages} :
                       \A m \in messages : m.updated_at <= t
       IN {latest, latest + 1}

\* the fan-out without the filter on the sender
createMessageNotifyAllMembers(input) ==
  /\ IF createMessageError(input) # NoError
     THEN /\ last' = [op |-> "createMessage",
                      error |-> createMessageError(input)]
          /\ UNCHANGED <<messages, pushNotifications, seq>>
     ELSE \E now \in defaultNow :
          LET message == [id |-> NextVal("messages"),
                          room_id |-> input.room_id,
                          user_id |-> input.user_id,
                          content |-> input.content,
                          message_type |-> StrOr(input.message_type, "text"),
                          file_url |-> StrOr(input.file_url, StrNull),
                          reply_to_id |-> OrNull(input.reply_to_id),
                          created_at |-> now,
                          updated_at |-> now]
              otherMembers == {m \in roomMembers : m.room_id = input.room_id}
          IN /\ NextVal("messages") <= MaxMessages
             /\ Cardinality(pushNotifications) + Cardinality(otherMembers)
                  <= MaxNotifications
             /\ \E order \in Orderings(otherMembers) :
                  LET notificationValues ==
                        [i \in DOMAIN order |->
                           [user_id |-> order[i].user_id,
                            title |-> "New Message",
                            body |-> MessageBody(input.content),
                            type |-> "new_message",
                            data |-> JSONstringify(
                                       <<<<"room_id", input.room_id>>,
                                         <<"message_id", message.id>>,
                                         <<"sender_id", input.user_id>>>>)]]
                  IN pushNotifications' =
                       pushNotifications \cup NewNotifications(notificationValues)
             /\ messages' = messages \cup {message}
             /\ seq' = [seq EXCEPT !.messages = @ + 1,
                                   !.push_notifications =
                                       @ + Cardinality(otherMembers)]
             /\ last' = [op |-> "createMessage", input |-> input,
                         error |-> NoError, result |-> message]
  /\ UNCHANGED <<users, chatRooms, roomMembers, uploads, comments, tx, pending>>

createMessage(input) ==
  /\ IF createMessageError(input) # NoError
     THEN /\ last' = [op |-> "createMessage",
                      error |-> createMessageError(input)]
          /\ UNCHANGED <<messages, pushNotifications, seq>>
     ELSE \E now \in defaultNow :
          LET message == [id |-> NextVal("messages"),
                          room_id |-> input.room_id,
                          user_id |-> input.user_id,
                          content |-> input.content,
                          message_type |-> StrOr(input.message_type, "text"),
                          file_url |-> StrOr(input.file_url, StrNull),
                          reply_to_id |-> OrNull(input.reply_to_id),
                          created_at |-> now,
                          updated_at |-> now]
              otherMembers == {m \in roomMembers :
                                 /\ m.room_id = input.room_id
                                 /\ m.user_id # input.user_id}
          IN /\ NextVal("messages") <= MaxMessages
             /\ Cardinality(pushNotifications) + Cardinality(otherMembers)
                  <= MaxNotifications
             /\ \E order \in Orderings(otherMembers) :
                  LET notificationValues ==
                        [i \in DOMAIN order |->
                           [user_id |-> order[i].user_id,
                            title |-> "New Message",
                            body |-> MessageBody(input.content),
                            type |-> "new_message",
                            data |-> JSONstringify(
                                       <<<<"room_id", input.room_id>>,
                                         <<"message_id", message.id>>,
                                         <<"sender_id", input.user_id>>>>)]]
                  IN pushNotifications' =
                       pushNotifications \cup NewNotifications(notificationValues)
             /\ messages' = messages \cup {message}
             /\ seq' = [seq EXCEPT !.messages = @ + 1,
                                   !.push_notifications =
                                       @ + Cardinality(otherMembers)]
             /\ last' = [op |-> "createMessage", input |-> input,
                         error |-> NoError, result |-> message]
  /\ UNCHANGED <<users, chatRooms, roomMembers, uploads, comments, tx, pending>>

----------------------------------------------------------------------------
(* createUpload *)

createUploadError(input) ==
  IF input.user_id \notin userIds THEN "User does not exist"
  ELSE IF Truthy(input.room_id) /\ input.room_id.v \notin roomIds
       THEN "Chat room does not exist"
  ELSE IF /\ Truthy(input.room_id)
          /\ ~ \E m \in roomMembers :
                 m.room_id = input.room_id.v /\ m.user_id = input.user_id
       THEN "User is not a member of room"
  ELSE NoError

createUpload(input) ==
  /\ IF createUploadError(input) # NoError
     THEN /\ last' = [op |-> "createUpload",
                      error |-> createUploadError(input)]
          /\ UNCHANGED <<uploads, pushNotifications, seq>>
     ELSE LET upload == [id |-> NextVal("uploads"),
                         user_id |-> input.user_id,
                         filename |-> input.filename,
                         room_id |-> OrNull(input.room_id)]
              userExists == CHOOSE u \in users : u.id = input.user_id
              \* room members joined with their user rows, uploader filtered out
              recipients ==
                IF Truthy(input.room_id)
                THEN {m \in roomMembers :
                        /\ m.room_id = input.room_id.v
                        /\ m.user_id \in userIds
                        /\ m.user_id # input.user_id}
                ELSE {}
          IN /\ NextVal("uploads") <= MaxUploads
             /\ Cardinality(pushNotifications) + Cardinality(recipients)
                  <= MaxNotifications
             /\ \E order \in Orderings(recipients) :
                  LET notifications ==
                        [i \in DOMAIN order |->
                           [user_id |-> order[i].user_id,
                            title |-> "New File Upload",
                            body |-> <<userExists.username, " uploaded ",
                                       input.filename>>,
                            type |-> "new_upload",
                            data |-> JSONstringify(
                                       <<<<"upload_id", upload.id>>,
                                         <<"room_id", input.room_id.v>>,
                                         <<"filename", input.filename>>>>)]]
                  IN pushNotifications' =
                       pushNotifications \cup NewNotifications(notifications)
             /\ uploads' = uploads \cup {upload}
             /\ seq' = [seq EXCEPT !.uploads = @ + 1,
                                   !.push_notifications =
                                       @ + Cardinality(recipients)]
             /\ last' = [op |-> "createUpload", input |-> input,
                         error |-> NoError, result |-> upload]
  /\ UNCHANGED <<users, chatRooms, roomMembers, messages, comments, tx, pending>>

----------------------------------------------------------------------------
(* createComment *)

\* the checks with the one for the user first
createCommentErrorUserFirst(input) ==
  IF input.user_id \notin userIds THEN "User not found"
  ELSE IF ~ \E u \in uploads : u.id = input.upload_id THEN "Upload not found"
  ELSE NoError

createCommentError(input) ==
  IF ~ \E u \in uploads : u.id = input.upload_id THEN "Upload not found"
  ELSE IF input.user_id \notin userIds THEN "User not found"
  ELSE NoError

\* the select without the filter on the upload owner
otherCommentersWithOwner(rows, input, uploadOwner) ==
  {c \in rows : c.upload_id = input.upload_id /\ c.user_id # input.user_id}

\* the comments on the upload by users other than the commenter and the owner
otherCommenters(rows, input, uploadOwner) ==
  {c \in rows :
     /\ c.upload_id = input.upload_id
     /\ c.user_id # input.user_id
     /\ c.user_id # uploadOwner.user_id}

createComment(input) ==
  /\ IF createCommentError(input) # NoError
     THEN /\ last' = [op |-> "createComment",
                      error |-> createCommentError(input)]
          /\ UNCHANGED <<comments, pushNotifications, seq>>
     ELSE LET comment == [id |-> NextVal("comments"),
                          upload_id |-> input.upload_id,
                          user_id |-> input.user_id,
                          content |-> input.content]
              uploadOwner == CHOOSE u \in uploads : u.id = input.upload_id
              data == JSONstringify(<<<<"comment_id", comment.id>>,
                                      <<"upload_id", input.upload_id>>,
                                      <<"commenter_id", input.user_id>>>>)
              ownerValues ==
                IF uploadOwner.user_id # input.user_id
                THEN <<[user_id |-> uploadOwner.user_id,
                        title |-> "New Comment",
                        body |-> <<"Someone commented on your upload: ",
                                   uploadOwner.filename>>,
                        type |-> "new_comment",
                        data |-> data]>>
                ELSE <<>>
              \* the select runs after the insert of the comment
              uniqueCommenters ==
                {c.user_id : c \in otherCommenters(comments \cup {comment},
                                                   input, uploadOwner)}
          IN /\ NextVal("comments") <= MaxComments
             /\ Cardinality(pushNotifications) + Len(ownerValues)
                  + Cardinality(uniqueCommenters) <= MaxNotifications
             /\ \E order \in Orderings(uniqueCommenters) :
                  LET commenterValues ==
                        [i \in DOMAIN order |->
                           [user_id |-> order[i],
                            title |-> "New Comment",
                            body |-> <<"Someone else commented on an upload you commented on: ",
                                       uploadOwner.filename>>,
                            type |-> "new_comment",
                            data |-> data]]
                  IN pushNotifications' =
                       pushNotifications
                         \cup NewNotifications(ownerValues \o commenterValues)
             /\ comments' = comments \cup {comment}
             /\ seq' = [seq EXCEPT !.comments = @ + 1,
                                   !.push_notifications =
                                       @ + Len(ownerValues)
                                         + Cardinality(uniqueCommenters)]
             /\ last' = [op |-> "createComment", input |-> input,
                         error |-> NoError, result |-> comment]
  /\ UNCHANGED <<users, chatRooms, roomMembers, messages, uploads, tx, pending>>

----------------------------------------------------------------------------
(* updateUser *)

\* updateData built with input.avatar_url || current: null counts as absent
updateUserRowNullKeepsAvatar(currentUser, input) ==
  [id |-> currentUser.id,
   username |-> IF input.username # StrUndefined
                THEN input.username ELSE currentUser.username,
   email |-> IF input.email # StrUndefined
             THEN input.email ELSE currentUser.email,
   avatar_url |-> IF input.avatar_url \notin {StrUndefined, StrNull}
                  THEN input.avatar_url ELSE currentUser.avatar_url,
   status |-> IF input.status # StrUndefined
              THEN input.status ELSE currentUser.status]

\* updateData applied to the stored row: only the provided fields
updateUserRow(currentUser, input) ==
  [id |-> currentUser.id,
   username |-> IF input.username # StrUndefined
                THEN input.username ELSE currentUser.username,
   email |-> IF input.email # StrUndefined
             THEN input.email ELSE currentUser.email,
   avatar_url |-> IF input.avatar_url # StrUndefined
                  THEN input.avatar_url ELSE currentUser.avatar_url,
   status |-> IF input.status # StrUndefined
              THEN input.status ELSE currentUser.status]

\* the condition without the comparison with the stored status
statusChangedIgnoringOld(input, oldStatus) ==
  input.status # StrUndefined

\* if (input.status !== undefined && input.status !== oldStatus)
statusChanged(input, oldStatus) ==
  input.status # StrUndefined /\ input.status # oldStatus

\* the member rows of the rooms the user is a member of, the user excluded
roomMateRows(id) ==
  {m \in roomMembers :
     /\ m.room_id \in {n.room_id : n \in {n \in roomMembers : n.user_id = id}}
     /\ m.user_id \in userIds
     /\ m.user_id # id}

\* a select of one row per membership: no DISTINCT
roomMatesPerMembership(id) ==
  {[user_id |-> m.user_id,
    username |-> (CHOOSE u \in users : u.id = m.user_id).username,
    membership |-> m.id] : m \in roomMateRows(id)}

\* selectDistinct {user_id, username} of those rows joined with their users
roomMates(id) ==
  {[user_id |-> m.user_id,
    username |-> (CHOOSE u \in users : u.id = m.user_id).username] :
     m \in roomMateRows(id)}

updateUser(input) ==
  /\ IF input.id \notin userIds
     THEN /\ last' = [op |-> "updateUser",
                      error |-> "User not found"]
          /\ UNCHANGED <<users, pushNotifications, seq>>
     ELSE LET currentUser == CHOOSE u \in users : u.id = input.id
              oldStatus == currentUser.status
              updatedUser == updateUserRow(currentUser, input)
              roomMatesQuery ==
                IF statusChanged(input, oldStatus)
                THEN roomMates(input.id) ELSE {}
          IN IF \E u \in users \ {currentUser} :
                  \/ u.username = updatedUser.username
                  \/ u.email = updatedUser.email
             THEN /\ last' = [op |-> "updateUser",
                              error |-> "duplicate key value violates unique constraint"]
                  /\ UNCHANGED <<users, pushNotifications, seq>>
             ELSE /\ Cardinality(pushNotifications) + Cardinality(roomMatesQuery)
                       <= MaxNotifications
                  /\ \E order \in Orderings(roomMatesQuery) :
                       LET notifications ==
                             [i \in DOMAIN order |->
                                [user_id |-> order[i].user_id,
                                 title |-> "User Status Update",
                                 body |-> <<updatedUser.username, " is now ",
                                            updatedUser.status>>,
                                 type |-> "status_update",
                                 data |-> JSONstringify(
                                   <<<<"user_id", updatedUser.id>>,
                                     <<"username", updatedUser.username>>,
                                     <<"old_status", oldStatus>>,
                                     <<"new_status", updatedUser.status>>>>)]]
                       IN pushNotifications' =
                            pushNotifications \cup NewNotifications(notifications)
                  /\ users' = (users \ {currentUser}) \cup {updatedUser}
                  /\ seq' = AdvanceBy("push_notifications",
                                      Cardinality(roomMatesQuery))
                  /\ last' = [op |-> "updateUser", input |-> input,
                              error |-> NoError, result |-> updatedUser,
                              oldStatus |-> oldStatus]
  /\ UNCHANGED <<chatRooms, roomMembers, messages, uploads, comments, tx, pending>>

----------------------------------------------------------------------------
(* updateUser, request by request.  The handler awaits the select of the   *)
(* current row before it builds and runs the update, so other requests run *)
(* in between: pending holds the calls that have read the row and not yet  *)
(* written, each with the status it read.  The statements after the update *)
(* are taken in one step with it.                                          *)

\* db.select().from(usersTable).where(eq(usersTable.id, input.id))
updateUserSelect(input) ==
  /\ InFlight < MaxInFlight
  /\ IF input.id \notin userIds
     THEN /\ pending' = pending
          /\ last' = [op |-> "updateUser", error |-> "User not found"]
     ELSE /\ pending' = pending \cup
               {[slot |-> FreeSlot, input |-> input,
                 oldStatus |-> (CHOOSE u \in users : u.id = input.id).status]}
          /\ last' = [op |-> "updateUser:select", input |-> input,
                      error |-> NoError]
  /\ UNCHANGED <<tables, seq, tx>>

\* the update of the row as it is now, then the fan-out decided by the status
\* read before
updateUserUpdate(p) ==
  /\ p \in pending
  /\ LET input == p.input
         oldStatus == p.oldStatus
         currentUser == CHOOSE u \in users : u.id = input.id
         updatedUser == updateUserRow(currentUser, input)
         roomMatesQuery ==
           IF statusChanged(input, oldStatus) THEN roomMates(input.id) ELSE {}
     IN IF \E u \in users \ {currentUser} :
             \/ u.username = updatedUser.username
             \/ u.email = updatedUser.email
        THEN /\ last' = [op |-> "updateUser",
                         error |-> "duplicate key value violates unique constraint"]
             /\ UNCHANGED <<users, pushNotifications, seq>>
        ELSE /\ Cardinality(pushNotifications) + Cardinality(roomMatesQuery)
                  <= MaxNotifications
             /\ \E order \in Orderings(roomMatesQuery) :
                  LET notifications ==
                        [i \in DOMAIN order |->
                           [user_id |-> order[i].user_id,
                            title |-> "User Status Update",
                            body |-> <<updatedUser.username, " is now ",
                                       updatedUser.status>>,
                            type |-> "status_update",
                            data |-> JSONstringify(
                              <<<<"user_id", updatedUser.id>>,
                                <<"username", updatedUser.username>>,
                                <<"old_status", oldStatus>>,
                                <<"new_status", updatedUser.status>>>>)]]
                  IN pushNotifications' =
                       pushNotifications \cup NewNotifications(notifications)
             /\ users' = (users \ {currentUser}) \cup {updatedUser}
             /\ seq' = AdvanceBy("push_notifications",
                                 Cardinality(roomMatesQuery))
             /\ last' = [op |-> "updateUser", input |-> input,
                         error |-> NoError, result |-> updatedUser,
                         oldStatus |-> oldStatus]
  /\ pending' = pending \ {p}
  /\ UNCHANGED <<chatRooms, roomMembers, messages, uploads, comments, tx>>

----------------------------------------------------------------------------
(* updateMessage.  The handler file holds only a placeholder that touches  *)
(* no table; the operation is modelled as the interface describes it: not  *)
(* found for an unknown id, content replaced when provided, updated_at     *)
(* refreshed, nothing else changed.                                        *)

\* the update that writes a content also when none is provided
updateMessageAlwaysContent(input) ==
  /\ LET found == {m \in messages : m.id = input.id}
     IN IF found = {}
        THEN /\ last' = [op |-> "updateMessage",
                         error |-> "Message not found"]
             /\ UNCHANGED messages
        ELSE \E now \in defaultNow :
               LET m == CHOOSE m \in found : TRUE
                   updated == [m EXCEPT
                                 !.content = IF input.content.t = "string"
                                             THEN input.content.v
                                             ELSE <<"placeholder content">>,
                                 !.updated_at = now]
               IN /\ now <= MaxClock
                  /\ messages' = (messages \ found) \cup {updated}
                  /\ last' = [op |-> "updateMessage", input |-> input,
                              error |-> NoError, result |-> updated,
                              before |-> m]
  /\ UNCHANGED <<users, chatRooms, roomMembers, uploads, comments,
                 pushNotifications, seq, tx, pending>>

updateMessage(input) ==
  /\ LET found == {m \in messages : m.id = input.id}
     IN IF found = {}
        THEN /\ last' = [op |-> "updateMessage",
                         error |-> "Message not found"]
             /\ UNCHANGED messages
        ELSE \E now \in defaultNow :
               LET m == CHOOSE m \in found : TRUE
                   updated == [m EXCEPT
                                 !.content = IF input.content.t = "string"
                                             THEN input.content.v ELSE @,
                                 !.updated_at = now]
               IN /\ now <= MaxClock
                  /\ messages' = (messages \ found) \cup {updated}
                  /\ last' = [op |-> "updateMessage", input |-> input,
                              error |-> NoError, result |-> updated,
                              before |-> m]
  /\ UNCHANGED <<users, chatRooms, roomMembers, uploads, comments,
                 pushNotifications, seq, tx, pending>>

----------------------------------------------------------------------------
(* getRoomMessages *)

\* the orders in which ORDER BY created_at DESC may return the rows of S:
\* rows with equal created_at come in any order
RECURSIVE OrderByCreatedAtDesc(_)
OrderByCreatedAtDesc(S) ==
  IF S = {} THEN {<<>>}
  ELSE UNION {{<<m>> \o rest : rest \in OrderByCreatedAtDesc(S \ {m})} :
                m \in {m \in S : \A k \in S : k.created_at <= m.created_at}}

\* .limit(limit).offset(offset) of the ordered rows
LimitOffset(rows, limit, offset) ==
  SubSeq(rows, offset + 1, Min(Len(rows), offset + limit))

getRoomMessages(input) ==
  /\ LET limit == IF Truthy(input.limit) THEN input.limit.v ELSE 50
         offset == IF Truthy(input.offset) THEN input.offset.v ELSE 0
         rows == {m \in messages : m.room_id = input.room_id}
     IN \E ordered \in OrderByCreatedAtDesc(rows) :
          last' = [op |-> "getRoomMessages", input |-> input,
                   error |-> NoError,
                   result |-> LimitOffset(ordered, limit, offset)]
  /\ UNCHANGED <<tables, seq, tx, pending>>

----------------------------------------------------------------------------
(* getUploads: the handler, and the procedure of the router *)

\* getUploadsInputSchema.parse: limit is a positive integer, 50 when absent;
\* offset is 0 when absent
getUploadsParseError(input) ==
  IF input.limit # Undefined /\ input.limit.v <= 0 THEN "ZodError" ELSE NoError

\* the uploads joined with their users; comment_count from the second query
UploadWithDetails(u) ==
  LET user == CHOOSE w \in users : w.id = u.user_id
  IN [id |-> u.id, user_id |-> u.user_id, filename |-> u.filename,
      room_id |-> u.room_id,
      user |-> [id |-> user.id, username |-> user.username,
                email |-> user.email, avatar_url |-> user.avatar_url],
      comment_count |-> Cardinality({c \in comments : c.upload_id = u.id})]

\* the rows that pass the conditions pushed for the filters that are defined
getUploadsRows(input) ==
  {u \in uploads :
     /\ u.user_id \in userIds
     /\ input.room_id # Undefined => u.room_id = input.room_id
     /\ input.user_id # Undefined => u.user_id = input.user_id.v}

\* the results the handler can give: no ORDER BY, so any order of the rows
getUploadsResults(input) ==
  LET limit == IF input.limit = Undefined THEN 50 ELSE input.limit.v
      offset == IF input.offset = Undefined THEN 0 ELSE input.offset.v
  IN {[i \in DOMAIN page |-> UploadWithDetails(page[i])] :
        page \in {LimitOffset(order, limit, offset) :
                    order \in Orderings(getUploadsRows(input))}}

getUploads(input) ==
  /\ IF getUploadsParseError(input) # NoError
     THEN last' = [op |-> "getUploads", error |-> getUploadsParseError(input)]
     ELSE \E result \in getUploadsResults(input) :
            last' = [op |-> "getUploads", input |-> input, error |-> NoError,
                     result |-> result]
  /\ UNCHANGED <<tables, seq, tx, pending>>

\* getUploads: publicProcedure.query(() => getUploads()): the procedure
\* declares no input and calls the handler with none
appRouter_getUploads(request) ==
  /\ \E result \in getUploadsResults([room_id |-> Undefined,
                                       user_id |-> Undefined,
                                       limit |-> Undefined,
                                       offset |-> Undefined]) :
       last' = [op |-> "appRouter.getUploads", input |-> request,
                error |-> NoError, result |-> result]
  /\ UNCHANGED <<tables, seq, tx, pending>>

----------------------------------------------------------------------------
(* createPushNotification, markNotificationRead *)

createPushNotification(input) ==
  /\ NextVal("push_notifications") <= MaxNotifications
  /\ IF input.user_id \notin userIds
     THEN /\ last' = [op |-> "createPushNotification",
                      error |-> "violates foreign key constraint"]
          /\ UNCHANGED pushNotifications
     ELSE LET notification == [id |-> NextVal("push_notifications"),
                               user_id |-> input.user_id,
                               title |-> input.title,
                               body |-> input.body,
                               type |-> input.type,
                               data |-> OrNull(input.data),
                               is_read |-> FALSE]
          IN /\ pushNotifications' = pushNotifications \cup {notification}
             /\ last' = [op |-> "createPushNotification", input |-> input,
                         error |-> NoError, result |-> notification]
  /\ seq' = Advance({"push_notifications"})
  /\ UNCHANGED <<users, chatRooms, roomMembers, messages, uploads, comments,
                 tx, pending>>

\* the update that inverts is_read
markNotificationReadToggle(input) ==
  /\ LET result == {n \in pushNotifications : n.id = input.id}
     IN IF result = {}
        THEN /\ last' = [op |-> "markNotificationRead",
                         error |-> "Notification not found"]
             /\ UNCHANGED pushNotifications
        ELSE /\ pushNotifications' =
                  (pushNotifications \ result)
                    \cup {[n EXCEPT !.is_read = ~ @] : n \in result}
             /\ last' = [op |-> "markNotificationRead", input |-> input,
                         error |-> NoError,
                         result |-> CHOOSE n \in pushNotifications' :
                                      n.id = input.id,
                         before |-> CHOOSE n \in result : TRUE]
  /\ UNCHANGED <<users, chatRooms, roomMembers, messages, uploads, comments,
                 seq, tx, pending>>

\* the update that inserts the row it does not find
markNotificationReadUpsert(input) ==
  /\ LET result == {n \in pushNotifications : n.id = input.id}
         row == [id |-> input.id, user_id |-> 1, title |-> "", body |-> "",
                 type |-> "new_message", data |-> Null, is_read |-> TRUE]
     IN IF result = {}
        THEN /\ last' = [op |-> "markNotificationRead", input |-> input,
                         error |-> NoError, result |-> row, before |-> row]
             /\ pushNotifications' = pushNotifications \cup {row}
        ELSE /\ pushNotifications' =
                  (pushNotifications \ result)
                    \cup {[n EXCEPT !.is_read = TRUE] : n \in result}
             /\ last' = [op |-> "markNotificationRead", input |-> input,
                         error |-> NoError,
                         result |-> CHOOSE n \in pushNotifications' :
                                      n.id = input.id,
                         before |-> CHOOSE n \in result : TRUE]
  /\ UNCHANGED <<users, chatRooms, roomMembers, messages, uploads, comments,
                 seq, tx, pending>>

\* UPDATE push_notifications SET is_read = true WHERE id = input.id
\* RETURNING *; no row returned: 'not found'
markNotificationRead(input) ==
  /\ LET result == {n \in pushNotifications : n.id = input.id}
     IN IF result = {}
        THEN /\ last' = [op |-> "markNotificationRead",
                         error |-> "Notification not found"]
             /\ UNCHANGED pushNotifications
        ELSE /\ pushNotifications' =
                  (pushNotifications \ result)
                    \cup {[n EXCEPT !.is_read = TRUE] : n \in result}
             /\ last' = [op |-> "markNotificationRead", input |-> input,
                         error |-> NoError,
                         result |-> CHOOSE n \in pushNotifications' :
                                      n.id = input.id,
                         before |-> CHOOSE n \in result : TRUE]
  /\ UNCHANGED <<users, chatRooms, roomMembers, messages, uploads, comments,
                 seq, tx, pending>>

----------------------------------------------------------------------------
(* Calls whose notification insert is refused by the store (connection     *)
(* lost, statement timed out) after the statements before it have run.  No *)
(* handler but createChatRoom opens a transaction, so each statement has   *)
(* committed on its own when the next one throws; the catch block logs and *)
(* rethrows.                                                               *)

NotifyError == "insert into push_notifications failed"

\* addRoomMember: the member row is in, the room_invite insert throws
addRoomMemberNotifyFails(input) ==
  /\ addRoomMemberError(input) = NoError
  /\ NextVal("room_members") <= MaxMembers
  /\ LET roomMember == [id |-> NextVal("room_members"),
                        room_id |-> input.room_id,
                        user_id |-> input.user_id,
                        role |-> StrOr(input.role, "member")]
     IN /\ roomMembers' = roomMembers \cup {roomMember}
        /\ last' = [op |-> "addRoomMember", error |-> NotifyError,
                    persisted |-> roomMember]
  /\ seq' = Advance({"room_members"})
  /\ UNCHANGED <<users, chatRooms, messages, uploads, comments,
                 pushNotifications, tx, pending>>

\* createMessage: the message row is in, the insert of the notifications for
\* the other members throws
createMessageNotifyFails(input) ==
  /\ createMessageError(input) = NoError
  /\ NextVal("messages") <= MaxMessages
  /\ \E m \in roomMembers :
       m.room_id = input.room_id /\ m.user_id # input.user_id
  /\ \E now \in defaultNow :
       LET message == [id |-> NextVal("messages"),
                       room_id |-> input.room_id,
                       user_id |-> input.user_id,
                       content |-> input.content,
                       message_type |-> StrOr(input.message_type, "text"),
                       file_url |-> StrOr(input.file_url, StrNull),
                       reply_to_id |-> OrNull(input.reply_to_id),
                       created_at |-> now,
                       updated_at |-> now]
       IN /\ messages' = messages \cup {message}
          /\ last' = [op |-> "createMessage", error |-> NotifyError,
                      persisted |-> message]
  /\ seq' = Advance({"messages"})
  /\ UNCHANGED <<users, chatRooms, roomMembers, uploads, comments,
                 pushNotifications, tx, pending>>

\* createComment: the comment row is in; the notifications are inserted one
\* statement each, the owner's first, and the k-th of them throws
createCommentNotifyFails(input) ==
  /\ createCommentError(input) = NoError
  /\ NextVal("comments") <= MaxComments
  /\ LET comment == [id |-> NextVal("comments"),
                     upload_id |-> input.upload_id,
                     user_id |-> input.user_id,
                     content |-> input.content]
         uploadOwner == CHOOSE u \in uploads : u.id = input.upload_id
         data == JSONstringify(<<<<"comment_id", comment.id>>,
                                 <<"upload_id", input.upload_id>>,
                                 <<"commenter_id", input.user_id>>>>)
         ownerValues ==
           IF uploadOwner.user_id # input.user_id
           THEN <<[user_id |-> uploadOwner.user_id,
                   title |-> "New Comment",
                   body |-> <<"Someone commented on your upload: ",
                              uploadOwner.filename>>,
                   type |-> "new_comment",
                   data |-> data]>>
           ELSE <<>>
         uniqueCommenters ==
           {c.user_id : c \in otherCommenters(comments \cup {comment},
                                              input, uploadOwner)}
     IN \E order \in Orderings(uniqueCommenters) :
          LET commenterValues ==
                [i \in DOMAIN order |->
                   [user_id |-> order[i],
                    title |-> "New Comment",
                    body |-> <<"Someone else commented on an upload you commented on: ",
                               uploadOwner.filename>>,
                    type |-> "new_comment",
                    data |-> data]]
              values == ownerValues \o commenterValues
          IN \E k \in DOMAIN values :
               /\ Cardinality(pushNotifications) + k - 1 <= MaxNotifications
               /\ pushNotifications' =
                    pushNotifications
                      \cup NewNotifications(SubSeq(values, 1, k - 1))
               /\ comments' = comments \cup {comment}
               /\ seq' = [seq EXCEPT !.comments = @ + 1,
                                     !.push_notifications = @ + k - 1]
               /\ last' = [op |-> "createComment", error |-> NotifyError,
                           persisted |-> comment]
  /\ UNCHANGED <<users, chatRooms, roomMembers, messages, uploads, tx, pending>>

----------------------------------------------------------------------------
(* The client's handleCreateRoom (client/src/App.tsx): createChatRoom, then *)
(* addRoomMember for the creator, then the new room appended to the list   *)
(* of rooms the component holds; any error thrown by the two calls is       *)
(* caught and a room made up locally is appended instead.  userRooms is    *)
(* the list the component holds when the handler runs, loaded earlier by   *)
(* getUserRooms.                                                           *)

\* the lists getUserRooms may have loaded: rooms the user is a member of
LoadedUserRooms(user_id) ==
  UNION {Orderings(S) :
           S \in SUBSET {r \in chatRooms :
                           \E m \in roomMembers :
                             m.room_id = r.id /\ m.user_id = user_id}}

\* Math.max(...userRooms.map(r => r.id), 0) + 1
LocalRoomId(userRooms) ==
  LET ids == {userRooms[i].id : i \in DOMAIN userRooms} \cup {0}
  IN (CHOOSE n \in ids : \A k \in ids : k <= n) + 1

handleCreateRoom(currentUser, newRoomName, userRooms) ==
  /\ NextVal("chat_rooms") <= MaxRooms
  /\ NextVal("room_members") <= MaxMembers
  /\ LET newRoom == [id |-> NextVal("chat_rooms"),
                     name |-> newRoomName,
                     created_by |-> currentUser]
         admin == [id |-> NextVal("room_members"),
                   room_id |-> newRoom.id,
                   user_id |-> currentUser,
                   role |-> "admin"]
         localRoom == [id |-> LocalRoomId(userRooms),
                       name |-> newRoomName,
                       created_by |-> currentUser]
         \* addRoomMember's checks against the tables createChatRoom left
         memberError ==
           IF \E m \in roomMembers \cup {admin} :
                m.room_id = newRoom.id /\ m.user_id = currentUser
           THEN "User is already a member of room"
           ELSE NoError
     IN IF currentUser \notin userIds
        THEN \* createChatRoom throws
             /\ UNCHANGED <<chatRooms, roomMembers, pushNotifications>>
             /\ seq' = Advance({"chat_rooms"})
             /\ last' = [op |-> "handleCreateRoom", error |-> NoError,
                         branch |-> "local",
                         caught |-> "violates foreign key constraint",
                         added |-> localRoom,
                         userRooms |-> Append(userRooms, localRoom)]
        ELSE IF memberError # NoError
        THEN \* createChatRoom has committed, addRoomMember throws
             /\ chatRooms' = chatRooms \cup {newRoom}
             /\ roomMembers' = roomMembers \cup {admin}
             /\ UNCHANGED pushNotifications
             /\ seq' = Advance({"chat_rooms", "room_members"})
             /\ last' = [op |-> "handleCreateRoom", error |-> NoError,
                         branch |-> "local", caught |-> memberError,
                         newRoom |-> newRoom,
                         added |-> localRoom,
                         userRooms |-> Append(userRooms, localRoom)]
        ELSE \* both calls return
             /\ NextVal("room_members") + 1 <= MaxMembers
             /\ Cardinality(pushNotifications) < MaxNotifications
             /\ chatRooms' = chatRooms \cup {newRoom}
             /\ roomMembers' =
                  roomMembers \cup {admin, [admin EXCEPT !.id = @ + 1]}
             /\ pushNotifications' =
                  pushNotifications \cup
                    {[id |-> NextVal("push_notifications"),
                      user_id |-> currentUser,
                      title |-> "Room Invitation",
                      body |-> <<"You've been added to ", newRoom.name>>,
                      type |-> "room_invite",
                      data |-> JSONstringify(<<<<"room_id", newRoom.id>>,
                                               <<"room_name", newRoom.name>>>>),
                      is_read |-> FALSE]}
             /\ seq' = [seq EXCEPT !.chat_rooms = @ + 1,
                                   !.room_members = @ + 2,
                                   !.push_notifications = @ + 1]
             /\ last' = [op |-> "handleCreateRoom", error |-> NoError,
                         branch |-> "backend", newRoom |-> newRoom,
                         added |-> newRoom,
                         userRooms |-> Append(userRooms, newRoom)]
  /\ UNCHANGED <<users, messages, uploads, comments, tx, pending>>

----------------------------------------------------------------------------
(* Inputs *)

UserIdInputs == 1..MaxUsers
RoomIdInputs == 1..MaxRooms
Usernames == {"alice", "bob", "carol"}
Emails == {"a@x.io", "b@x.io", "c@x.io"}
Contents == {<<"h", "i">>}
Filenames == {"f.png"}
RoomNames == {"general"}

CreateUserInputs ==
  [username : Usernames, email : Emails, avatar_url : {StrUndefined},
   status : {StrUndefined, "online"}]

CreateChatRoomInputs == [name : RoomNames, created_by : UserIdInputs]

CreateRoomMemberInputs ==
  [room_id : RoomIdInputs, user_id : UserIdInputs,
   role : {StrUndefined, "moderator"}]

OptionalIds(n) == {Undefined, Null} \cup {Num(i) : i \in 0..n}

CreateMessageInputs ==
  [room_id : RoomIdInputs, user_id : UserIdInputs, content : Contents,
   message_type : {StrUndefined}, file_url : {StrUndefined},
   reply_to_id : OptionalIds(MaxMessages)]

CreateUploadInputs ==
  [user_id : UserIdInputs, filename : Filenames,
   room_id : OptionalIds(MaxRooms)]

CreateCommentInputs ==
  [upload_id : 1..MaxUploads, user_id : UserIdInputs, content : Contents]

UpdateUserInputs ==
  [id : UserIdInputs, username : {StrUndefined} \cup Usernames,
   email : {StrUndefined}, avatar_url : {StrUndefined, StrNull},
   status : {StrUndefined} \cup userStatusEnum]

----------------------------------------------------------------------------
(* The whole interface, every request interleaved at the awaits modelled,  *)
(* from the empty database.                                                *)

Next ==
  \/ \E input \in CreateUserInputs : createUser(input)
  \/ \E input \in CreateChatRoomInputs : createChatRoomInsertRoom(input)
  \/ \E t \in tx : createChatRoomInsertMember(t)
  \/ \E t \in tx : createChatRoomCommit(t)
  \/ \E t \in tx : createChatRoomRollback(t)
  \/ \E input \in CreateRoomMemberInputs : addRoomMemberCheck(input)
  \/ \E p \in pending : addRoomMemberInsert(p)
  \/ \E input \in CreateMessageInputs : createMessage(input)
  \/ \E input \in CreateUploadInputs : createUpload(input)
  \/ \E input \in CreateCommentInputs : createComment(input)
  \/ \E input \in UpdateUserInputs : updateUser(input)

Spec == Init /\ [][Next]_vars

----------------------------------------------------------------------------
(* Scenario specifications.  Each starts from the database left by         *)
(* createUser calls for the first users (alice, bob, ...) and runs the     *)
(* requests of one area of the interface.                                  *)

SeedNames == <<"alice", "bob", "carol", "dave">>
SeedEmails == <<"a@x.io", "b@x.io", "c@x.io", "d@x.io">>

\* the row createUser stores for {username, email}
SeedUser(i) ==
  [id |-> i, username |-> SeedNames[i], email |-> SeedEmails[i],
   avatar_url |-> StrNull, status |-> "offline"]

InitSeeded(n) ==
  /\ users = {SeedUser(i) : i \in 1..n}
  /\ chatRooms = {}
  /\ roomMembers = {}
  /\ messages = {}
  /\ uploads = {}
  /\ comments = {}
  /\ pushNotifications = {}
  /\ seq = [users |-> n + 1, chat_rooms |-> 1, room_members |-> 1,
            messages |-> 1, uploads |-> 1, comments |-> 1,
            push_notifications |-> 1]
  /\ tx = {}
  /\ pending = {}
  /\ last = [op |-> "init", error |-> NoError]

\* rooms and memberships
InitRooms == InitSeeded(2)

\* two known users and one unknown id
RoomsUserIds == 1..3

NextRooms ==
  \/ \E input \in [name : RoomNames, created_by : RoomsUserIds] :
       createChatRoomInsertRoom(input)
  \/ \E t \in tx : createChatRoomInsertMember(t)
  \/ \E t \in tx : createChatRoomCommit(t)
  \/ \E t \in tx : createChatRoomRollback(t)
  \/ \E input \in [room_id : RoomIdInputs, user_id : RoomsUserIds,
                    role : {StrUndefined}] : addRoomMemberCheck(input)
  \/ \E p \in pending : addRoomMemberInsert(p)

SpecRooms == InitRooms /\ [][NextRooms]_vars

\* messages in the rooms of user 1, which user 2 may be added to
InitMessages == InitSeeded(2)

MessagesUserIds == 1..2

MessageInputs ==
  [room_id : 1..2, user_id : MessagesUserIds, content : Contents,
   message_type : {StrUndefined}, file_url : {StrUndefined},
   reply_to_id : {Undefined, Null, Num(0), Num(1), Num(2)}]

NextMessages ==
  \/ \E input \in [name : RoomNames, created_by : {1}] :
       createChatRoom(input)
  \/ \E input \in [room_id : 1..2, user_id : {2},
                    role : {StrUndefined}] : addRoomMember(input)
  \/ \E input \in MessageInputs : createMessage(input)

SpecMessages == InitMessages /\ [][NextMessages]_vars

\* status updates among room mates: three known users
InitStatus == InitSeeded(3)

StatusUserIds == 1..3

\* user 1 with or without a change of profile fields, and any status
StatusInputs ==
  [id : {1}, username : {StrUndefined}, email : {StrUndefined},
   avatar_url : {StrUndefined}, status : {StrUndefined, "offline", "online"}]
  \cup
  [id : {1}, username : {"zed"}, email : {"z@x.io"},
   avatar_url : {"a.png"}, status : {StrUndefined, "offline", "online"}]

NextStatus ==
  \/ \E input \in [name : RoomNames, created_by : 1..2] :
       createChatRoom(input)
  \/ \E input \in [room_id : RoomIdInputs, user_id : StatusUserIds,
                    role : {StrUndefined}] : addRoomMember(input)
  \/ \E input \in StatusInputs : updateUser(input)

SpecStatus == InitStatus /\ [][NextStatus]_vars

\* uploads outside rooms and their comments: three known users
InitUploads == InitSeeded(3)

UploadsUserIds == 1..3

CommentInputs ==
  [upload_id : 1..MaxUploads, user_id : UploadsUserIds, content : {"nice"}]

NextUploads ==
  \/ \E input \in [user_id : 1..2, filename : Filenames,
                    room_id : {Undefined, Null}] : createUpload(input)
  \/ \E input \in CommentInputs : createComment(input)

SpecUploads == InitUploads /\ [][NextUploads]_vars

\* memberships added one call at a time: two known users, one unknown id, a
\* role other than the creator's
InitMembers == InitSeeded(2)

MemberInputs ==
  [room_id : RoomIdInputs, user_id : 1..3, role : {StrUndefined, "moderator"}]

NextMembers ==
  \/ \E input \in [name : RoomNames, created_by : 1..2] : createChatRoom(input)
  \/ \E input \in MemberInputs : addRoomMember(input)

SpecMembers == InitMembers /\ [][NextMembers]_vars

\* notifications created directly (for user 2 and an unknown user, with an
\* empty and a non-empty data string) and by the handlers, and marked read
InitNotifications == InitSeeded(2)

PushNotificationInputs ==
  [user_id : 2..3, title : {"hello"}, body : {"there"},
   type : {"new_message"},
   data : {Str(<<>>), JSONstringify(<<<<"room_id", 1>>>>)}]

MarkNotificationReadInputs == [id : 1..(MaxNotifications + 1)]

NextNotifications ==
  \/ \E input \in PushNotificationInputs : createPushNotification(input)
  \/ \E input \in MarkNotificationReadInputs : markNotificationRead(input)
  \/ \E input \in [name : RoomNames, created_by : {1}] : createChatRoom(input)
  \/ \E input \in [room_id : {1}, user_id : {2}, role : {StrUndefined}] :
       addRoomMember(input)

SpecNotifications == InitNotifications /\ [][NextNotifications]_vars

\* messages of several lengths in a room with one or two members
InitBodies == InitSeeded(2)

\* a content of n characters, the i-th written ToString(i)
ContentOfLength(n) == [i \in 1..n |-> ToString(i)]

BodyContents == {ContentOfLength(n) : n \in {2, 50, 51, 75, 76}}

NextBodies ==
  \/ \E input \in [name : RoomNames, created_by : {1}] : createChatRoom(input)
  \/ \E input \in [room_id : {1}, user_id : {2},
                    role : {StrUndefined}] : addRoomMember(input)
  \/ \E input \in [room_id : {1}, user_id : 1..2,
                    content : BodyContents, message_type : {StrUndefined},
                    file_url : {StrUndefined}, reply_to_id : {Undefined}] :
       createMessage(input)

SpecBodies == InitBodies /\ [][NextBodies]_vars

\* pages of the messages of a room. The store holds two rooms of user 1 and
\* MaxPageMessages messages by user 1, each in one of the rooms, as
\* createMessage stores them: ids in order of insertion, created_at not
\* decreasing.
PageMessage(i, room_id, created_at) ==
  [id |-> i, room_id |-> room_id, user_id |-> 1, content |-> <<"m", ToString(i)>>,
   message_type |-> "text", file_url |-> StrNull, reply_to_id |-> Null,
   created_at |-> created_at, updated_at |-> created_at]

PageTables ==
  {{PageMessage(i, room[i], at[i]) : i \in 1..MaxPageMessages} :
     room \in [1..MaxPageMessages -> 1..2],
     at \in {f \in [1..MaxPageMessages -> 1..MaxPageMessages] :
               /\ f[1] = 1
               /\ \A i \in 2..MaxPageMessages : f[i] \in {f[i - 1], f[i - 1] + 1}}}

InitPages ==
  /\ users = {SeedUser(1)}
  /\ chatRooms = {[id |-> r, name |-> "general", created_by |-> 1] : r \in 1..2}
  /\ roomMembers = {[id |-> r, room_id |-> r, user_id |-> 1, role |-> "admin"] :
                      r \in 1..2}
  /\ messages \in PageTables
  /\ uploads = {}
  /\ comments = {}
  /\ pushNotifications = {}
  /\ seq = [users |-> 2, chat_rooms |-> 3, room_members |-> 3,
            messages |-> MaxPageMessages + 1, uploads |-> 1, comments |-> 1,
            push_notifications |-> 1]
  /\ tx = {}
  /\ pending = {}
  /\ last = [op |-> "init", error |-> NoError]

\* rooms 1 and 2 and the unknown room 3; limit and offset absent or given
GetRoomMessagesInputs ==
  [room_id : 1..3, limit : {Undefined, Num(2)},
   offset : {Undefined, Num(0), Num(2)}]

NextPages == \E input \in GetRoomMessagesInputs : getRoomMessages(input)

SpecPages == InitPages /\ [][NextPages]_vars

\* uploads of two users inside and outside a room, listed with filters
InitUploadQueries == InitSeeded(2)

GetUploadsInputs ==
  [room_id : {Undefined, Num(1), Num(2)}, user_id : {Undefined, Num(1), Num(2)},
   limit : {Undefined, Num(0), Num(1)}, offset : {Undefined, Num(1)}]

GetUploadsRequests ==
  [room_id : {Undefined, Num(1)}, user_id : {Undefined, Num(1), Num(2)},
   limit : {Undefined}, offset : {Undefined}]

NextUploadQueries ==
  \/ \E input \in [name : RoomNames, created_by : {1}] : createChatRoom(input)
  \/ \E input \in [user_id : 1..2, filename : Filenames,
                    room_id : {Null, Num(1)}] : createUpload(input)
  \/ \E input \in [upload_id : {1}, user_id : {1}, content : {"nice"}] :
       createComment(input)
  \/ \E input \in GetUploadsInputs : getUploads(input)
  \/ \E request \in GetUploadsRequests : appRouter_getUploads(request)

SpecUploadQueries == InitUploadQueries /\ [][NextUploadQueries]_vars

\* edits of two stored messages of room 1: a text message, and an image
\* message with a file_url that replies to it
InitEdits ==
  /\ users = {SeedUser(1)}
  /\ chatRooms = {[id |-> 1, name |-> "general", created_by |-> 1]}
  /\ roomMembers = {[id |-> 1, room_id |-> 1, user_id |-> 1, role |-> "admin"]}
  /\ messages \in
       {{PageMessage(1, 1, 1),
         [PageMessage(2, 1, at) EXCEPT !.message_type = "image",
                                       !.file_url = "image.jpg",
                                       !.reply_to_id = Num(1)]} : at \in 1..2}
  /\ uploads = {}
  /\ comments = {}
  /\ pushNotifications = {}
  /\ seq = [users |-> 2, chat_rooms |-> 2, room_members |-> 2,
            messages |-> 3, uploads |-> 1, comments |-> 1,
            push_notifications |-> 1]
  /\ tx = {}
  /\ pending = {}
  /\ last = [op |-> "init", error |-> NoError]

UpdateMessageInputs ==
  [id : 1..3, content : {Undefined, Str(<<"e", "d">>)}]

NextEdits == \E input \in UpdateMessageInputs : updateMessage(input)

SpecEdits == InitEdits /\ [][NextEdits]_vars

\* uploads into rooms by members, non-members and an unknown user
InitUploadErrors == InitSeeded(2)

UploadErrorInputs ==
  [user_id : 1..3, filename : Filenames,
   room_id : {Undefined, Null, Num(0), Num(1), Num(2)}]

NextUploadErrors ==
  \/ \E input \in [name : RoomNames, created_by : {1}] : createChatRoom(input)
  \/ \E input \in [room_id : {1}, user_id : {2}, role : {StrUndefined}] :
       addRoomMember(input)
  \/ \E input \in UploadErrorInputs : createUpload(input)

SpecUploadErrors == InitUploadErrors /\ [][NextUploadErrors]_vars

\* accounts: created and updated with names and emails that are free or
\* taken, by users who share a room
InitAccounts == InitSeeded(1)

AccountCreateInputs ==
  [username : {"alice", "bob"}, email : {"a@x.io", "b@x.io"},
   avatar_url : {"b.png"}, status : {StrUndefined}]

\* a name and a status for a known or an unknown id; an email and an
\* avatar_url, null or not, for a known id
AccountUpdateInputs ==
  [id : 1..3, username : {StrUndefined, "bob"}, email : {StrUndefined},
   avatar_url : {StrUndefined}, status : {StrUndefined, "online"}]
  \cup
  [id : 1..2, username : {StrUndefined}, email : {"b@x.io"},
   avatar_url : {StrNull, "a.png"}, status : {StrUndefined}]

NextAccounts ==
  \/ \E input \in AccountCreateInputs : createUser(input)
  \/ \E input \in AccountUpdateInputs : updateUser(input)
  \/ \E input \in [name : RoomNames, created_by : {1}] : createChatRoom(input)
  \/ \E input \in [room_id : {1}, user_id : {2}, role : {StrUndefined}] :
       addRoomMember(input)

SpecAccounts == InitAccounts /\ [][NextAccounts]_vars

\* replies: messages of user 1 in two rooms that reply to none, to an earlier
\* message, to the id they are about to get or to an id not yet given, and
\* edits of the messages
InitThreads == InitSeeded(1)

ThreadInputs ==
  [room_id : 1..2, user_id : {1}, content : Contents,
   message_type : {StrUndefined}, file_url : {StrUndefined},
   reply_to_id : {Undefined, Num(0), Num(1), Num(2), Num(3)}]

ThreadEdits == [id : 1..2, content : {Undefined, Str(<<"e", "d">>)}]

NextThreads ==
  \/ \E input \in [name : RoomNames, created_by : {1}] : createChatRoom(input)
  \/ \E input \in ThreadInputs : createMessage(input)
  \/ \E input \in ThreadEdits : updateMessage(input)

SpecThreads == InitThreads /\ [][NextThreads]_vars

\* comments on known and unknown uploads by two known users and an unknown one
InitCommentErrors == InitSeeded(2)

CommentErrorInputs ==
  [upload_id : 1..(MaxUploads + 1), user_id : 1..3, content : {"nice"}]

NextCommentErrors ==
  \/ \E input \in [user_id : 1..2, filename : Filenames, room_id : {Null}] :
       createUpload(input)
  \/ \E input \in CommentErrorInputs : createComment(input)

SpecCommentErrors == InitCommentErrors /\ [][NextCommentErrors]_vars

\* concurrent updateUser calls that set the status of user 1, who may share
\* a room with user 2
InitStatusRace == InitSeeded(2)

StatusRaceInputs ==
  [id : {1, 3}, username : {StrUndefined}, email : {StrUndefined},
   avatar_url : {StrUndefined}, status : {"online", "offline"}]

NextStatusRace ==
  \/ \E input \in [name : RoomNames, created_by : {1}] : createChatRoom(input)
  \/ \E input \in [room_id : {1}, user_id : {2}, role : {StrUndefined}] :
       addRoomMember(input)
  \/ \E input \in StatusRaceInputs : updateUserSelect(input)
  \/ \E p \in pending : updateUserUpdate(p)

SpecStatusRace == InitStatusRace /\ [][NextStatusRace]_vars

\* calls that succeed, calls that fail a check and calls whose notification
\* insert the store refuses
InitFanOutFailures == InitSeeded(2)

FanOutMemberInputs == [room_id : {1}, user_id : {2}, role : {StrUndefined}]

FanOutMessageInputs ==
  [room_id : {1}, user_id : 1..2, content : Contents,
   message_type : {StrUndefined}, file_url : {StrUndefined},
   reply_to_id : {Undefined}]

FanOutCommentInputs == [upload_id : {1}, user_id : 1..3, content : {"nice"}]

NextFanOutFailures ==
  \/ \E input \in [name : RoomNames, created_by : {1}] : createChatRoom(input)
  \/ \E input \in FanOutMemberInputs : addRoomMember(input)
  \/ \E input \in FanOutMemberInputs : addRoomMemberNotifyFails(input)
  \/ \E input \in FanOutMessageInputs : createMessage(input)
  \/ \E input \in FanOutMessageInputs : createMessageNotifyFails(input)
  \/ \E input \in [user_id : {1}, filename : Filenames, room_id : {Null}] :
       createUpload(input)
  \/ \E input \in FanOutCommentInputs : createComment(input)
  \/ \E input \in FanOutCommentInputs : createCommentNotifyFails(input)

SpecFanOutFailures == InitFanOutFailures /\ [][NextFanOutFailures]_vars

\* the clients of user 1 and of a user the backend does not know creating
\* rooms, while user 2 creates rooms through the interface and adds user 1
\* to them
InitClient == InitSeeded(2)

ClientUsers == {1, 3}

ClientRoomNames == {"lounge", "den"}

NextClient ==
  \/ \E input \in [name : RoomNames, created_by : {2}] : createChatRoom(input)
  \/ \E input \in [room_id : RoomIdInputs, user_id : {1},
                    role : {StrUndefined, "moderator"}] : addRoomMember(input)
  \/ \E currentUser \in ClientUsers, newRoomName \in ClientRoomNames :
       \E userRooms \in LoadedUserRooms(currentUser) :
         handleCreateRoom(currentUser, newRoomName, userRooms)

SpecClient == InitClient /\ [][NextClient]_vars

\* concurrent addRoomMember calls, then a message or an upload in the room
InitRace == InitSeeded(2)

RaceUserIds == 1..2

NextRace ==
  \/ \E input \in [name : RoomNames, created_by : {1}] :
       createChatRoom(input)
  \/ \E input \in [room_id : RoomIdInputs, user_id : {2},
                    role : {StrUndefined}] : addRoomMemberCheck(input)
  \/ \E p \in pending : addRoomMemberInsert(p)
  \/ \E input \in [room_id : RoomIdInputs, user_id : RaceUserIds,
                    content : Contents, message_type : {StrUndefined},
                    file_url : {StrUndefined}, reply_to_id : {Undefined}] :
       createMessage(input)
  \/ \E input \in [user_id : RaceUserIds, filename : Filenames,
                    room_id : {Null} \cup {Num(r) : r \in RoomIdInputs}] :
       createUpload(input)

SpecRace == InitRace /\ [][NextRace]_vars

----------------------------------------------------------------------------
(* Properties *)

membersOf(room_id) == {m \in roomMembers : m.room_id = room_id}
memberIds(room_id) == {m.user_id : m \in membersOf(room_id)}

CreatorIsAdmin ==
  \A r \in chatRooms :
    \E m \in roomMembers :
      m.room_id = r.id /\ m.user_id = r.created_by /\ m.role = "admin"

UnknownCreatorPersistsNothing ==
  last'.op = "createChatRoom" =>
    \A input \in [name : RoomNames, created_by : RoomsUserIds] :
      (input.created_by \notin userIds /\ createChatRoomInsertRoom(input))
        => /\ last'.error = "violates foreign key constraint"
           /\ UNCHANGED <<tables, tx>>

\* C1: in every state, also while a createChatRoom is between its two
\* inserts and after one was interrupted or failed, every persisted room has
\* an admin RoomMember row for its creator; a createChatRoom for an unknown
\* creator fails and persists neither a room nor a membership row.
C1_RoomHasCreatorAdmin ==
  [](CreatorIsAdmin) /\ [][UnknownCreatorPersistsNothing]_vars

\* a createChatRoom was interrupted between its two inserts, after another
\* one had committed
C1_Witness ==
  /\ last.op = "createChatRoom"
  /\ last.error = "interrupted"
  /\ last.rolledBack.members = {}
  /\ chatRooms # {}

\* a createChatRoom for an unknown creator has failed
C1_WitnessUnknownCreator ==
  /\ last.op = "createChatRoom"
  /\ last.error = "violates foreign key constraint"

\* C2: right after a successful createChatRoom(created_by = u) that returned
\* room r, exactly one RoomMember row exists for r, for user u, role admin.
C2_ExactlyOneAdminRowAfterCreate ==
  (last.op = "createChatRoom" /\ last.error = NoError)
    => /\ Cardinality(membersOf(last.result.id)) = 1
       /\ \A m \in membersOf(last.result.id) :
            m.user_id = last.input.created_by /\ m.role = "admin"

\* the same user has just created a second room
C2_Witness ==
  /\ last.op = "createChatRoom"
  /\ last.error = NoError
  /\ \E r \in chatRooms :
       r.id # last.result.id /\ r.created_by = last.input.created_by

\* C3: at most one RoomMember row per (room_id, user_id) pair.
C3_UniquePair ==
  \A m1, m2 \in roomMembers :
    (m1.room_id = m2.room_id /\ m1.user_id = m2.user_id) => m1 = m2

isMember(room_id, user_id) ==
  \E m \in roomMembers : m.room_id = room_id /\ m.user_id = user_id

NonMemberRejected ==
  last'.op = "createMessage" =>
    \A input \in MessageInputs :
      (~ isMember(input.room_id, input.user_id) /\ createMessage(input))
        => /\ last'.error = "User is not a member of this room"
           /\ UNCHANGED tables

\* C4: createMessage by a user without a RoomMember row for the room fails
\* with 'User is not a member of this room' and changes no table.
C4_NonMemberRejected == [][NonMemberRejected]_vars

\* a non-member's createMessage has failed in a store that holds a message
\* and notifications
C4_Witness ==
  /\ last.op = "createMessage"
  /\ last.error = "User is not a member of this room"
  /\ messages # {}
  /\ pushNotifications # {}

namesNoMessageOfRoom(input) ==
  /\ input.reply_to_id.t = "number"
  /\ ~ \E r \in messages :
         r.id = input.reply_to_id.v /\ r.room_id = input.room_id

InvalidReplyRejected ==
  last'.op = "createMessage" =>
    \A input \in MessageInputs :
      (/\ isMember(input.room_id, input.user_id)
       /\ namesNoMessageOfRoom(input)
       /\ createMessage(input))
        => /\ last'.error = "Reply target message not found in this room"
           /\ UNCHANGED tables

\* C5: createMessage by a member with a reply_to_id that names no message of
\* the input room fails with 'Reply target message not found in this room'
\* and changes no table.
C5_InvalidReplyRejected == [][InvalidReplyRejected]_vars

\* the same for the reply_to_id values other than 0
C5_NonZeroInvalidReplyRejected ==
  [][last'.op = "createMessage" =>
       \A input \in MessageInputs :
         (/\ isMember(input.room_id, input.user_id)
          /\ namesNoMessageOfRoom(input)
          /\ input.reply_to_id.v # 0
          /\ createMessage(input))
           => /\ last'.error = "Reply target message not found in this room"
              /\ UNCHANGED tables]_vars

OneNotificationPerOtherMember ==
  (last'.op = "createMessage" /\ last'.error = NoError)
    => LET a == last'.input.user_id
           others == memberIds(last'.input.room_id) \ {a}
           added == pushNotifications' \ pushNotifications
       IN /\ pushNotifications \subseteq pushNotifications'
          /\ \A u \in others : Cardinality({n \in added : n.user_id = u}) = 1
          /\ \A n \in added :
               n.user_id \in others /\ n.type = "new_message" /\ ~ n.is_read

\* C6: a successful createMessage by a in room r adds exactly one unread
\* new_message notification for each user other than a with a RoomMember
\* row for r, and no other notification.
C6_OneNotificationPerOtherMember == [][OneNotificationPerOtherMember]_vars

\* the users other than id with a RoomMember row in a room where id has one
sharingRoom(id) ==
  {u \in userIds \ {id} :
     \E r \in {m.room_id : m \in roomMembers} : isMember(r, u) /\ isMember(r, id)}

StatusUpdateToEachRoomMate ==
  (/\ last'.op = "updateUser"
   /\ last'.error = NoError
   /\ last'.input.status # StrUndefined
   /\ last'.input.status # last'.oldStatus)
    => LET added == pushNotifications' \ pushNotifications
       IN /\ pushNotifications \subseteq pushNotifications'
          /\ {n.user_id : n \in added} = sharingRoom(last'.input.id)
          /\ \A u \in sharingRoom(last'.input.id) :
               Cardinality({n \in added : n.user_id = u}) = 1
          /\ \A n \in added : n.type = "status_update"

\* C7: a successful updateUser(id, status) whose status differs from the
\* stored one adds status_update notifications for exactly the users other
\* than id that share a room with id, one for each of them however many rooms
\* they share, and adds no other notification.
C7_StatusUpdateToEachRoomMate == [][StatusUpdateToEachRoomMate]_vars

\* a status change of a user who shares two rooms with one user, and no room
\* with another
C7_Witness ==
  /\ last.op = "updateUser"
  /\ last.error = NoError
  /\ last.input.status \notin {StrUndefined, last.oldStatus}
  /\ \E u \in userIds :
       Cardinality({r \in roomIds : isMember(r, u) /\ isMember(r, last.input.id)
                                      /\ u # last.input.id}) = 2
  /\ sharingRoom(last.input.id) # userIds \ {last.input.id}

NoNotificationWithoutStatusChange ==
  last'.op = "updateUser" =>
    \A input \in StatusInputs :
      (/\ \/ input.status = StrUndefined
          \/ \E u \in users : u.id = input.id /\ u.status = input.status
       /\ updateUser(input))
        => pushNotifications' = pushNotifications

\* C8: an updateUser whose input omits status, or gives the stored status,
\* adds no notification, whatever other fields it changes.
C8_NoNotificationWithoutStatusChange ==
  [][NoNotificationWithoutStatusChange]_vars

\* a user with room mates, who were notified of an earlier status change, has
\* given a username, email and avatar_url and the stored status
C8_Witness ==
  /\ last.op = "updateUser"
  /\ last.error = NoError
  /\ last.input.status = last.oldStatus
  /\ last.input.username # StrUndefined
  /\ last.result.username # SeedNames[last.input.id]
  /\ sharingRoom(last.input.id) # {}
  /\ \E n \in pushNotifications : n.type = "status_update"

\* the same with the status omitted
C8_WitnessOmitted ==
  /\ last.op = "updateUser"
  /\ last.error = NoError
  /\ last.input.status = StrUndefined
  /\ last.input.username # StrUndefined
  /\ sharingRoom(last.input.id) # {}

NewCommentRecipients ==
  (last'.op = "createComment" /\ last'.error = NoError)
    => LET c == last'.input.user_id
           o == (CHOOSE u \in uploads : u.id = last'.input.upload_id).user_id
           prior == {k.user_id : k \in {k \in comments :
                                          k.upload_id = last'.input.upload_id}}
                      \ {c, o}
           recipients == prior \cup (IF c # o THEN {o} ELSE {})
           added == pushNotifications' \ pushNotifications
       IN /\ pushNotifications \subseteq pushNotifications'
          /\ {n.user_id : n \in added} = recipients
          /\ \A u \in recipients : Cardinality({n \in added : n.user_id = u}) = 1
          /\ \A n \in added : n.type = "new_comment"
          /\ Cardinality(added) = Cardinality(prior) + (IF c # o THEN 1 ELSE 0)

\* C9: a successful createComment by c on an upload owned by o adds
\* new_comment notifications for exactly o, if c differs from o, and the
\* distinct users other than c and o with an earlier comment on the upload,
\* one for each of them: N + (1 if c # o else 0) for N such earlier commenters.
C9_NewCommentRecipients == [][NewCommentRecipients]_vars

\* a comment by a third user on an upload on which another user, not its
\* owner, had commented twice
C9_Witness ==
  /\ last.op = "createComment"
  /\ last.error = NoError
  /\ \E u \in uploads :
       /\ u.id = last.input.upload_id
       /\ u.user_id # last.input.user_id
       /\ \E w \in userIds \ {u.user_id, last.input.user_id} :
            Cardinality({k \in comments :
                           k.upload_id = u.id /\ k.user_id = w}) = 2

\* a comment by the owner after a comment by the owner and one by another user
C9_WitnessOwner ==
  /\ last.op = "createComment"
  /\ last.error = NoError
  /\ \E u \in uploads :
       /\ u.id = last.input.upload_id
       /\ u.user_id = last.input.user_id
       /\ \E k \in comments : k.id # last.result.id /\ k.user_id = u.user_id
       /\ \E k \in comments : k.upload_id = u.id /\ k.user_id # u.user_id

NewUploadNotifications ==
  (last'.op = "createUpload" /\ last'.error = NoError)
    => LET added == pushNotifications' \ pushNotifications
       IN /\ pushNotifications \subseteq pushNotifications'
          /\ IF last'.input.room_id.t = "number"
             THEN LET others == memberIds(last'.input.room_id.v)
                                  \ {last'.input.user_id}
                  IN /\ \A u \in others :
                          Cardinality({n \in added : n.user_id = u}) = 1
                     /\ \A n \in added :
                          n.user_id \in others /\ n.type = "new_upload"
             ELSE added = {}

\* C10: a successful createUpload into room r adds exactly one new_upload
\* notification for each member of r other than the uploader and no other
\* notification; one without a room_id, or with room_id null, adds none.
C10_NewUploadNotifications == [][NewUploadNotifications]_vars

\* the part of C10 about uploads outside rooms
C10_NoRoomNoNotification ==
  [][(/\ last'.op = "createUpload"
      /\ last'.error = NoError
      /\ last'.input.room_id.t # "number")
       => pushNotifications' = pushNotifications]_vars

\* the error the checks give in the order user, room, membership, for a
\* room_id that is a number
expectedUploadError(input) ==
  IF input.user_id \notin userIds THEN "User does not exist"
  ELSE IF input.room_id.t = "number" /\ input.room_id.v \notin roomIds
       THEN "Chat room does not exist"
  ELSE IF input.room_id.t = "number"
          /\ ~ isMember(input.room_id.v, input.user_id)
       THEN "User is not a member of room"
  ELSE NoError

UploadRejected ==
  last'.op = "createUpload" =>
    \A input \in UploadErrorInputs :
      (expectedUploadError(input) # NoError /\ createUpload(input))
        => /\ last'.error = expectedUploadError(input)
           /\ UNCHANGED tables

\* C11: createUpload for an unknown user, else for a given room_id that names
\* no room, else for a given room_id of which the user is no member, fails
\* with the error of the first of these checks and changes no table.
C11_UploadRejected == [][UploadRejected]_vars

\* the same for the room_id values other than 0
C11_NonZeroUploadRejected ==
  [][last'.op = "createUpload" =>
       \A input \in UploadErrorInputs :
         (/\ expectedUploadError(input) # NoError
          /\ (input.room_id.t = "number" => input.room_id.v # 0)
          /\ createUpload(input))
           => /\ last'.error = expectedUploadError(input)
              /\ UNCHANGED tables]_vars

ExistingMemberRejected ==
  last'.op = "addRoomMember" =>
    \A input \in MemberInputs :
      (isMember(input.room_id, input.user_id) /\ addRoomMember(input))
        => /\ last'.error = "User is already a member of room"
           /\ UNCHANGED tables

\* C12: with one call at a time, addRoomMember for a pair that has a
\* RoomMember row fails with 'already a member' and changes no table: no row
\* is added, no role changes and no notification is created.
C12_ExistingMemberRejected == [][ExistingMemberRejected]_vars

\* an addRoomMember was rejected as 'already a member' while the only
\* memberships were the creators' admin rows; the role it asked for was
\* 'member' or 'moderator'
C12_Witness ==
  /\ last.op = "addRoomMember"
  /\ last.error = "User is already a member of room"
  /\ roomMembers # {}
  /\ \A m \in roomMembers :
       /\ m.role = "admin"
       /\ \E r \in chatRooms : r.id = m.room_id /\ r.created_by = m.user_id

roomInvites(user_id) ==
  {n \in pushNotifications : n.type = "room_invite" /\ n.user_id = user_id}

OneInviteForAddedUser ==
  (last'.op = "addRoomMember" /\ last'.error = NoError)
    => LET added == pushNotifications' \ pushNotifications
       IN /\ pushNotifications \subseteq pushNotifications'
          /\ Cardinality(added) = 1
          /\ \A n \in added :
               /\ n.user_id = last'.input.user_id
               /\ n.type = "room_invite"
               /\ ~ n.is_read
               /\ JSONget(n.data, "room_id") = last'.input.room_id

\* the rooms a user was added to are the rooms of the user's invitations,
\* one invitation per room
InvitesMatchRoomsAddedTo ==
  \A u \in userIds :
    /\ {JSONget(n.data, "room_id") : n \in roomInvites(u)}
         = {m.room_id : m \in {m \in roomMembers : m.user_id = u /\ m.role # "admin"}}
    /\ Cardinality(roomInvites(u))
         = Cardinality({JSONget(n.data, "room_id") : n \in roomInvites(u)})

\* C13: every successful addRoomMember(R, B) adds exactly one notification:
\* an unread room_invite for B with data.room_id = R; a user added to k rooms
\* holds k room_invite notifications, one per room.
C13_OneInviteForAddedUser ==
  [][OneInviteForAddedUser]_vars /\ []InvitesMatchRoomsAddedTo

\* user B has just been added to a second room and holds two invitations
C13_Witness ==
  /\ last.op = "addRoomMember"
  /\ last.error = NoError
  /\ Cardinality(roomInvites(last.input.user_id)) = 2
  /\ \E m \in roomMembers :
       /\ m.user_id = last.input.user_id
       /\ m.room_id # last.input.room_id
       /\ m.role # "admin"

notificationWithId(id) == {n \in pushNotifications : n.id = id}

MarkReadSetsOnlyIsRead ==
  last'.op = "markNotificationRead" =>
    \A input \in MarkNotificationReadInputs :
      (notificationWithId(input.id) # {} /\ markNotificationRead(input))
        => /\ last'.error = NoError
           /\ last'.result.is_read
           /\ pushNotifications' =
                {IF n.id = input.id THEN [n EXCEPT !.is_read = TRUE] ELSE n :
                   n \in pushNotifications}
           /\ UNCHANGED <<users, chatRooms, roomMembers, messages, uploads,
                          comments>>

SecondMarkReadChangesNothing ==
  last'.op = "markNotificationRead" =>
    \A input \in MarkNotificationReadInputs :
      (/\ \E n \in notificationWithId(input.id) : n.is_read
       /\ markNotificationRead(input))
        => /\ last'.error = NoError
           /\ last'.result.is_read
           /\ UNCHANGED tables

\* C14: markNotificationRead on an existing id succeeds and sets is_read of
\* that notification, changing nothing else; on a notification that is
\* already read (a second call) it succeeds again and leaves every table as
\* the first call left it.
C14_MarkReadIdempotent ==
  [][MarkReadSetsOnlyIsRead]_vars /\ [][SecondMarkReadChangesNothing]_vars

\* a second markNotificationRead on the same notification has succeeded, next
\* to an unread notification
C14_Witness ==
  /\ last.op = "markNotificationRead"
  /\ last.error = NoError
  /\ last.before.is_read
  /\ last.result \in pushNotifications
  /\ \E n \in pushNotifications : ~ n.is_read

ReadStaysRead ==
  \A n \in pushNotifications :
    /\ n.is_read => [n EXCEPT !.is_read = TRUE] \in pushNotifications'
    /\ last'.op # "markNotificationRead" => n \in pushNotifications'

\* C15: a notification that is read is still there and read after every step,
\* and a step of an operation other than markNotificationRead leaves every
\* existing notification as it was.
C15_ReadStaysRead == [][ReadStaysRead]_vars

\* after a notification was read, other notifications were created by
\* createPushNotification and by addRoomMember, and one was marked again
C15_Witness ==
  /\ \E n, m, k \in pushNotifications :
       /\ n.is_read /\ n.id < m.id /\ n.id < k.id
       /\ m.type = "room_invite" /\ ~ m.is_read
       /\ k.type = "new_message"
  /\ last.op = "markNotificationRead"
  /\ last.error = NoError
  /\ last.before.is_read

UnknownNotificationRejected ==
  last'.op = "markNotificationRead" =>
    \A input \in MarkNotificationReadInputs :
      (notificationWithId(input.id) = {} /\ markNotificationRead(input))
        => /\ last'.error = "Notification not found"
           /\ UNCHANGED tables

\* C16: markNotificationRead with an id that names no notification fails
\* with 'not found' and changes no table.
C16_UnknownNotificationRejected == [][UnknownNotificationRejected]_vars

\* a markNotificationRead has failed with 'not found' in a store that holds
\* a read and an unread notification
C16_Witness ==
  /\ last.op = "markNotificationRead"
  /\ last.error = "Notification not found"
  /\ \E n \in pushNotifications : n.is_read
  /\ \E n \in pushNotifications : ~ n.is_read

newMessageNotifications ==
  {n \in pushNotifications' \ pushNotifications : n.type = "new_message"}

BodyIsContentCutAt75 ==
  (last'.op = "createMessage" /\ last'.error = NoError)
    => \A n \in newMessageNotifications :
         n.body = IF Len(last'.input.content) > 75
                  THEN SubSeq(last'.input.content, 1, 75) \o <<"...">>
                  ELSE last'.input.content

\* C17: the body of each new_message notification created by createMessage
\* is the content cut to its first 75 characters followed by "..." when the
\* content is longer than 75 characters, and the whole content otherwise.
C17_BodyIsContentCutAt75 == [][BodyIsContentCutAt75]_vars

BodyIsPrefixedContentCutAt50 ==
  (last'.op = "createMessage" /\ last'.error = NoError)
    => \A n \in newMessageNotifications :
         LET content == last'.input.content
             rest == Tail(n.body)
         IN /\ Head(n.body) = "New message in room: "
            /\ IF Len(content) <= 50
               THEN rest = content
               ELSE /\ Len(rest) = 51
                    /\ \A i \in 1..50 : rest[i] = content[i]
                    /\ rest[51] = "..."

\* C17 as amended: the body is "New message in room: " followed by the
\* content cut to its first 50 characters and "..." when the content is
\* longer than 50 characters, and by the whole content otherwise.
C17_BodyIsPrefixedContentCutAt50 == [][BodyIsPrefixedContentCutAt50]_vars

\* a message of 51 characters was sent and another member was notified
C17_Witness ==
  /\ last.op = "createMessage"
  /\ last.error = NoError
  /\ Len(last.input.content) = 51
  /\ \E n \in pushNotifications :
       /\ n.type = "new_message"
       /\ JSONget(n.data, "message_id") = last.result.id
       /\ Len(n.body) = 52

\* a message of 50 characters was sent and another member was notified
C17_WitnessAtCutoff ==
  /\ last.op = "createMessage"
  /\ last.error = NoError
  /\ Len(last.input.content) = 50
  /\ \E n \in pushNotifications :
       n.type = "new_message" /\ JSONget(n.data, "message_id") = last.result.id

roomMessages(room_id) == {m \in messages : m.room_id = room_id}

newerThan(m) == {k \in roomMessages(m.room_id) : k.created_at > m.created_at}
notOlderThan(m) == {k \in roomMessages(m.room_id) : k.created_at >= m.created_at}

Elements(seqn) == {seqn[i] : i \in DOMAIN seqn}

\* what one call returns
PageOfRoom ==
  last'.op = "getRoomMessages" =>
    LET input == last'.input
        result == last'.result
        limit == IF input.limit = Undefined THEN 50 ELSE input.limit.v
        offset == IF input.offset = Undefined THEN 0 ELSE input.offset.v
        n == Cardinality(roomMessages(input.room_id))
    IN /\ last'.error = NoError
       /\ Elements(result) \subseteq roomMessages(input.room_id)
       /\ \A i, j \in DOMAIN result :
            i < j => /\ result[i] # result[j]
                     /\ result[i].created_at >= result[j].created_at
       /\ Len(result) = IF n <= offset THEN 0 ELSE Min(limit, n - offset)
       /\ \A i \in DOMAIN result :
            /\ Cardinality(newerThan(result[i])) <= offset + i - 1
            /\ Cardinality(notOlderThan(result[i])) >= offset + i
       /\ input.room_id \notin roomIds => result = <<>>

\* (limit 2, offset 0) and then (limit 2, offset 2) over the 5 messages of a room
SecondPageAfterFirst ==
  /\ last.op = "getRoomMessages"
  /\ last'.op = "getRoomMessages"
  /\ last'.input.room_id = last.input.room_id
  /\ Cardinality(roomMessages(last.input.room_id)) = 5
  /\ last.input.limit = Num(2) /\ last.input.offset = Num(0)
  /\ last'.input.limit = Num(2) /\ last'.input.offset = Num(2)

PagesDisjoint ==
  SecondPageAfterFirst => Elements(last.result) \cap Elements(last'.result) = {}

\* C18: getRoomMessages returns only messages of the room, newest first,
\* the first offset skipped and at most limit returned (defaults 50 and 0),
\* and nothing for an unknown room; over 5 messages (limit 2, offset 2)
\* returns the 3rd and 4th most recent and shares no message with
\* (limit 2, offset 0).
C18_PagesOfRoom == [][PageOfRoom]_vars /\ [][PagesDisjoint]_vars

\* one call alone returns what C18 says
C18_PageOfRoom == [][PageOfRoom]_vars

\* the two pages are disjoint when no two messages of the room have the same
\* created_at
C18_PagesDisjointWithoutTies ==
  [][(/\ SecondPageAfterFirst
      /\ \A m, k \in roomMessages(last.input.room_id) :
           m.created_at = k.created_at => m = k)
       => Elements(last.result) \cap Elements(last'.result) = {}]_vars

matchesFilters(u, input) ==
  /\ input.room_id # Undefined => u.room_id = input.room_id
  /\ input.user_id # Undefined => u.user_id = input.user_id.v

OnlyMatchingUploads ==
  (last'.op \in {"getUploads", "appRouter.getUploads"} /\ last'.error = NoError)
    => \A i \in DOMAIN last'.result :
         matchesFilters(last'.result[i], last'.input)

\* C19: getUploads with room_id and/or user_id returns only uploads that
\* match every filter given, whether the handler is called directly or
\* through the getUploads procedure of the router.
C19_OnlyMatchingUploads == [][OnlyMatchingUploads]_vars

\* the handler called directly returns only matching uploads, and all of
\* them when limit and offset are absent
C19_HandlerFilters ==
  [][(last'.op = "getUploads" /\ last'.error = NoError)
       => /\ \A i \in DOMAIN last'.result :
               matchesFilters(last'.result[i], last'.input)
          /\ (last'.input.limit = Undefined /\ last'.input.offset = Undefined)
               => {r.id : r \in Elements(last'.result)}
                    = {u.id : u \in {u \in uploads :
                                       matchesFilters(u, last'.input)}}]_vars

UpdateChangesOnlyContent ==
  (last'.op = "updateMessage" /\ last'.error = NoError)
    => LET input == last'.input
           m == CHOOSE m \in messages : m.id = input.id
           after == CHOOSE k \in messages' : k.id = input.id
       IN /\ \E k \in messages : k.id = input.id
          /\ messages' \ {after} = messages \ {m}
          /\ after.room_id = m.room_id
          /\ after.user_id = m.user_id
          /\ after.message_type = m.message_type
          /\ after.file_url = m.file_url
          /\ after.reply_to_id = m.reply_to_id
          /\ after.created_at = m.created_at
          /\ after.updated_at >= m.updated_at
          /\ after.content = IF input.content = Undefined THEN m.content
                             ELSE input.content.v
          /\ UNCHANGED <<users, chatRooms, roomMembers, uploads, comments,
                         pushNotifications>>

UnknownMessageRejected ==
  last'.op = "updateMessage" =>
    \A input \in UpdateMessageInputs :
      ((~ \E m \in messages : m.id = input.id) /\ updateMessage(input))
        => /\ last'.error = "Message not found"
           /\ UNCHANGED tables

C20_WitnessUnknown ==
  /\ last.op = "updateMessage"
  /\ last.error = "Message not found"
  /\ \E m \in messages : m.content = <<"e", "d">>


UniqueUsernamesAndEmails ==
  \A u, w \in users :
    (u.username = w.username \/ u.email = w.email) => u = w

wouldDuplicate(id, username, email) ==
  \E u \in users :
    u.id # id /\ (u.username = username \/ u.email = email)

\* a createUser that gives a taken username or email does not succeed, and a
\* createUser that fails changes no table
DuplicateCreateRejected ==
  last'.op = "createUser" =>
    IF last'.error = NoError
    THEN ~ wouldDuplicate(last'.result.id, last'.input.username,
                          last'.input.email)
    ELSE UNCHANGED tables

\* the username and the email the addressed user would have after the update
wouldHave(input, field) ==
  IF input[field] # StrUndefined THEN input[field]
  ELSE (CHOOSE u \in users : u.id = input.id)[field]

\* the same for updateUser
DuplicateUpdateRejected ==
  last'.op = "updateUser" =>
    IF last'.error = NoError
    THEN ~ wouldDuplicate(last'.input.id, wouldHave(last'.input, "username"),
                          wouldHave(last'.input, "email"))
    ELSE UNCHANGED tables

\* C21: in every reachable state no two users have the same username and no
\* two users have the same email, under any sequence of createUser and
\* updateUser calls; a createUser or updateUser that would produce a
\* duplicate fails, leaves the users table unchanged and creates no
\* notification.
C21_UniqueUsernamesAndEmails ==
  /\ [](UniqueUsernamesAndEmails)
  /\ [][DuplicateCreateRejected]_vars
  /\ [][DuplicateUpdateRejected]_vars

\* an updateUser that gave a taken name or email has failed for a user who
\* has a room mate, after a createUser had failed and another had succeeded
C21_Witness ==
  /\ last.op = "updateUser"
  /\ last.error = "duplicate key value violates unique constraint"
  /\ Cardinality(users) = 2
  /\ NextVal("users") = 4
  /\ sharingRoom(1) # {}

userWithId(table, id) == CHOOSE u \in table : u.id = id

UpdateChangesOnlyGivenFields ==
  (last'.op = "updateUser" /\ last'.error = NoError)
    => LET input == last'.input
           before == userWithId(users, input.id)
           after == userWithId(users', input.id)
       IN /\ input.id \in userIds
          /\ users' \ {after} = users \ {before}
          /\ last'.result = after
          /\ after.username = IF input.username = StrUndefined
                              THEN before.username ELSE input.username
          /\ after.email = IF input.email = StrUndefined
                           THEN before.email ELSE input.email
          /\ after.avatar_url = IF input.avatar_url = StrUndefined
                                THEN before.avatar_url ELSE input.avatar_url
          /\ after.status = IF input.status = StrUndefined
                            THEN before.status ELSE input.status
          /\ UNCHANGED <<chatRooms, roomMembers, messages, uploads, comments>>

UnknownUserRejected ==
  last'.op = "updateUser" =>
    \A input \in AccountUpdateInputs :
      (input.id \notin userIds /\ updateUser(input))
        => /\ last'.error = "User not found"
           /\ UNCHANGED tables

\* C22: a successful updateUser changes, for the addressed user, only the
\* fields present in the input (avatar_url given as null is stored as null),
\* and changes no field of any other user; an id that names no user fails
\* with 'User not found', changes no row and creates no notification.
C22_UpdateChangesOnlyGivenFields ==
  [][UpdateChangesOnlyGivenFields]_vars /\ [][UnknownUserRejected]_vars

\* the avatar_url of the second user, who was created with one, was set to
\* null, with an email, after a status change was notified
C22_Witness ==
  /\ last.op = "updateUser"
  /\ last.error = NoError
  /\ last.input.id = 2
  /\ last.input.avatar_url = StrNull
  /\ last.result.avatar_url = StrNull
  /\ Cardinality(users) = 2
  /\ \E n \in pushNotifications : n.type = "status_update"

\* an updateUser for an id that names no user has failed
C22_WitnessUnknown ==
  /\ last.op = "updateUser"
  /\ last.error = "User not found"
  /\ pushNotifications # {}

\* C23: in every state reachable through the interface operations, for every
\* persisted message there is a RoomMember row linking the message's author
\* to the message's room.
C23_AuthorIsMember ==
  \A m \in messages : isMember(m.room_id, m.user_id)

\* the store holds a message by the creator of a room and one by a user who
\* was added to a room, and a call by a non-member has just failed
C23_Witness ==
  /\ \E m \in messages :
       \E r \in chatRooms : r.id = m.room_id /\ r.created_by = m.user_id
  /\ \E m \in messages :
       \E r \in chatRooms : r.id = m.room_id /\ r.created_by # m.user_id
  /\ last.op = "createMessage"
  /\ last.error = "User is not a member of this room"

\* C24: in every state reachable through the interface operations, every
\* message whose reply_to_id is not null references an existing message of
\* the same room that was created earlier (smaller id), so reply chains
\* never contain a cycle and no message replies to itself; updateMessage
\* cannot break this.
C24_ReplyToEarlierMessageOfRoom ==
  \A m \in messages :
    m.reply_to_id # Null =>
      \E r \in messages :
        /\ r.id = m.reply_to_id.v
        /\ r.room_id = m.room_id
        /\ r.id < m.id

\* a message replies to an earlier one of its room, and both have been
\* edited since
C24_Witness ==
  /\ \E m \in messages : m.reply_to_id # Null
  /\ \A m \in messages : m.updated_at > m.created_at
  /\ last.op = "updateMessage"
  /\ last.error = NoError

\* a reply to an id that names no message of the room has failed, in a store
\* with two rooms and a message
C24_WitnessOtherRoom ==
  /\ last.op = "createMessage"
  /\ last.error = "Reply target message not found in this room"
  /\ messages # {}
  /\ Cardinality(chatRooms) = 2

uploadIds == {u.id : u \in uploads}

UnknownUploadOrUserRejected ==
  last'.op = "createComment" =>
    \A input \in CommentErrorInputs :
      ((input.upload_id \notin uploadIds \/ input.user_id \notin userIds)
         /\ createComment(input))
        => /\ last'.error = IF input.upload_id \notin uploadIds
                            THEN "Upload not found" ELSE "User not found"
           /\ UNCHANGED tables

\* C25: createComment fails with 'Upload not found' when upload_id is unknown
\* and with 'User not found' when user_id is unknown (the upload check comes
\* first when both are unknown), and in both cases no comment row and no
\* notification is persisted.
C25_UnknownUploadOrUserRejected == [][UnknownUploadOrUserRejected]_vars

\* a comment on an unknown upload has failed in a store that holds an upload,
\* a comment and a notification
C25_Witness ==
  /\ last.op = "createComment"
  /\ last.error = "Upload not found"
  /\ uploads # {}
  /\ comments # {}
  /\ pushNotifications # {}

\* a comment by an unknown user on a known upload has failed
C25_WitnessUser ==
  /\ last.op = "createComment"
  /\ last.error = "User not found"
  /\ comments # {}
  /\ pushNotifications # {}

matchingUploads(input) == {u \in uploads : matchesFilters(u, input)}

uploadIdsOf(result) == {r.id : r \in Elements(result)}

\* the handler called with (limit 1, no offset) and then, on the same store
\* and with the same filters, with (limit 1, offset 1)
ConsecutiveUploadPages ==
  /\ last.op = "getUploads" /\ last.error = NoError
  /\ last'.op = "getUploads" /\ last'.error = NoError
  /\ last'.input.room_id = last.input.room_id
  /\ last'.input.user_id = last.input.user_id
  /\ last.input.limit = Num(1) /\ last.input.offset = Undefined
  /\ last'.input.limit = Num(1) /\ last'.input.offset = Num(1)

UploadPagesPartition ==
  ConsecutiveUploadPages
    => /\ uploadIdsOf(last.result) \cap uploadIdsOf(last'.result) = {}
       /\ Cardinality(matchingUploads(last.input)) <= 2
            => uploadIdsOf(last.result) \cup uploadIdsOf(last'.result)
                 = {u.id : u \in matchingUploads(last.input)}

\* C26: for a fixed store, getUploads pages taken with the same limit and
\* consecutive offsets (0, limit, 2*limit, ...) are pairwise disjoint and
\* together contain every matching upload exactly once.
C26_UploadPagesPartition == [][UploadPagesPartition]_vars

\* each page alone holds the rows that some order of the matching uploads
\* puts at its offsets: as many as are left after the offset, at most limit,
\* no upload twice
C26_EachPageOfSomeOrder ==
  [][(last'.op = "getUploads" /\ last'.error = NoError)
       => LET input == last'.input
              limit == IF input.limit = Undefined THEN 50 ELSE input.limit.v
              offset == IF input.offset = Undefined THEN 0 ELSE input.offset.v
              n == Cardinality(matchingUploads(input))
          IN /\ uploadIdsOf(last'.result)
                  \subseteq {u.id : u \in matchingUploads(input)}
             /\ Len(last'.result) = IF n <= offset THEN 0
                                    ELSE Min(limit, n - offset)
             /\ Cardinality(uploadIdsOf(last'.result)) = Len(last'.result)]_vars

\* C27: in every state reachable through the interface operations, every
\* new_message notification written by createMessage names in its data a
\* message_id of a persisted message whose room is data.room_id and whose
\* author is data.sender_id, and is addressed to a user who has a RoomMember
\* row for that room and is not the sender.
C27_NewMessageNotificationsNameTheirMessage ==
  \A n \in pushNotifications :
    n.type = "new_message" =>
      /\ \E m \in messages :
           /\ m.id = JSONget(n.data, "message_id")
           /\ m.room_id = JSONget(n.data, "room_id")
           /\ m.user_id = JSONget(n.data, "sender_id")
      /\ isMember(JSONget(n.data, "room_id"), n.user_id)
      /\ n.user_id # JSONget(n.data, "sender_id")

\* two members of a room have each been notified of a message of the other
C27_Witness ==
  \E n, k \in pushNotifications :
    /\ n.type = "new_message" /\ k.type = "new_message"
    /\ n.user_id = JSONget(k.data, "sender_id")
    /\ k.user_id = JSONget(n.data, "sender_id")
    /\ JSONget(n.data, "message_id") # JSONget(k.data, "message_id")

statusOf(table, id) == (CHOOSE u \in table : u.id = id).status

\* status_update notifications are added only by a step that changes the
\* stored status of the user they are about, one for each recipient
OneStatusUpdatePerChange ==
  LET added == {n \in pushNotifications' \ pushNotifications :
                  n.type = "status_update"}
  IN /\ \A n \in added :
          statusOf(users', JSONget(n.data, "user_id"))
            # statusOf(users, JSONget(n.data, "user_id"))
     /\ \A n, k \in added : n.user_id = k.user_id => n = k

\* C28: under any interleaving of concurrent updateUser calls on the same
\* user, each room-mate receives at most one status_update notification per
\* actual change of the stored status value: two concurrent calls that both
\* read the old status and both set the same new status do not each fan out
\* a notification.
C28_OneStatusUpdatePerChange == [][OneStatusUpdatePerChange]_vars

FailedCallPersistsNoPrimaryRow ==
  (/\ last'.op \in {"createMessage", "createUpload", "createComment",
                    "addRoomMember", "updateUser"}
   /\ last'.error # NoError)
    => UNCHANGED <<users, roomMembers, messages, uploads, comments>>

\* C29: createMessage, createUpload, createComment, addRoomMember and
\* updateUser are all-or-nothing: whenever one of these calls ends in
\* failure, including a failure of a notification write during fan-out, the
\* primary row it inserted or updated earlier in the same call is not left
\* persisted.
C29_FailedCallPersistsNoPrimaryRow == [][FailedCallPersistsNoPrimaryRow]_vars

\* a call that fails one of its checks, before its first write, changes no
\* table
C29_FailedCheckPersistsNothing ==
  [][(/\ last'.op \in {"createMessage", "createUpload", "createComment",
                       "addRoomMember", "updateUser"}
      /\ last'.error \notin {NoError, NotifyError})
       => UNCHANGED tables]_vars

\* for a current user the backend knows
RoomListGetsPersistedRoom ==
  (last'.op = "handleCreateRoom" /\ last'.added.created_by \in userIds) =>
    LET list == last'.userRooms
    IN /\ last'.branch = "backend"
       /\ last'.added \in chatRooms' \ chatRooms
       /\ Cardinality({i \in DOMAIN list : list[i].id = last'.added.id}) = 1

\* C30: with the backend available, the client's handleCreateRoom
\* (createChatRoom followed by addRoomMember for the creator with role
\* admin) completes without taking its local-fallback branch, so the room
\* added to the client's room list is the persisted room with its
\* server-assigned id and the new room appears exactly once in that list.
C30_RoomListGetsPersistedRoom == [][RoomListGetsPersistedRoom]_vars

\* the room is persisted with its admin membership all the same
C30_RoomPersistedAnyway ==
  [][(last'.op = "handleCreateRoom" /\ last'.added.created_by \in userIds)
       => /\ last'.newRoom \in chatRooms' \ chatRooms
          /\ \E m \in roomMembers' \ roomMembers :
               /\ m.room_id = last'.newRoom.id
               /\ m.user_id = last'.newRoom.created_by
               /\ m.role = "admin"]_vars
====
